---- MODULE Spec2Model ----
(***************************************************************************)
(* Model of the content tracker daemon (src/src/core/daemon.py), of the    *)
(* window probe's derived attributes (src/src/core/monitor.py), of the     *)
(* privacy exclusion (src/src/utils/config.py) and of the classification   *)
(* pipeline (src/src/analyzers/content_classifier.py).                     *)
(*                                                                         *)
(* Python strings that the code lowers, searches or concatenates are       *)
(* sequences of one-character strings, so that lower() and the substring   *)
(* operator `in` are computed and not assumed.  Confidences and scores are *)
(* integers in hundredths (0.7 is 70), productivity weights in tenths.     *)
(***************************************************************************)
EXTENDS Integers, Sequences, FiniteSets, TLC

(***************************************************************************)
(* Strings                                                                 *)
(***************************************************************************)
UpperChars == <<"A","B","C","D","E","F","G","H","I","J","K","L","M","N","O","P","Q","R","S","T","U","V","W","X","Y","Z">>

LowerChars == <<"a","b","c","d","e","f","g","h","i","j","k","l","m","n","o","p","q","r","s","t","u","v","w","x","y","z">>

MinOf(S) == CHOOSE x \in S : \A y \in S : x <= y

\* str.lower(), one character
lowerChar(c) ==
    IF \E i \in 1..26 : UpperChars[i] = c
    THEN LowerChars[CHOOSE i \in 1..26 : UpperChars[i] = c]
    ELSE c

upperChar(c) ==
    IF \E i \in 1..26 : LowerChars[i] = c
    THEN UpperChars[CHOOSE i \in 1..26 : LowerChars[i] = c]
    ELSE c

\* str.lower()
lower(s) == [i \in 1..Len(s) |-> lowerChar(s[i])]

\* the Python expression  sub in s  on strings
contains(sub, s) ==
    \E i \in 1..(Len(s) - Len(sub) + 1) : SubSeq(s, i, i + Len(sub) - 1) = sub

\* any(x in s for x in xs), xs a sequence of strings
anyIn(xs, s) == \E k \in 1..Len(xs) : contains(xs[k], s)

\* s[:n]
prefix(s, n) == SubSeq(s, 1, IF Len(s) < n THEN Len(s) ELSE n)

\* str.startswith
startswith(s, p) == Len(s) >= Len(p) /\ SubSeq(s, 1, Len(p)) = p

\* s.split(sep)[0] for a one-character separator
beforeChar(s, c) ==
    IF \E i \in 1..Len(s) : s[i] = c
    THEN SubSeq(s, 1, MinOf({i \in 1..Len(s) : s[i] = c}) - 1)
    ELSE s

(***************************************************************************)
(* Window probe: the attributes WindowMonitor derives for a window         *)
(***************************************************************************)
BROWSER_NAMES ==
    << <<"f","i","r","e","f","o","x">>, <<"c","h","r","o","m","e">>, <<"c","h","r","o","m","i","u","m">>, <<"b","r","a","v","e">>, <<"o","p","e","r","a">>, <<"e","d","g","e">>,
       <<"v","i","v","a","l","d","i">>, <<"l","i","b","r","e","w","o","l","f">> >>

known_sites ==
    << << <<"y","o","u","t","u","b","e">>, <<"y","o","u","t","u","b","e",".","c","o","m">> >>,
       << <<"g","i","t","h","u","b">>, <<"g","i","t","h","u","b",".","c","o","m">> >>,
       << <<"s","t","a","c","k","o","v","e","r","f","l","o","w">>, <<"s","t","a","c","k","o","v","e","r","f","l","o","w",".","c","o","m">> >>,
       << <<"s","t","a","c","k"," ","o","v","e","r","f","l","o","w">>, <<"s","t","a","c","k","o","v","e","r","f","l","o","w",".","c","o","m">> >>,
       << <<"r","e","d","d","i","t">>, <<"r","e","d","d","i","t",".","c","o","m">> >>,
       << <<"t","w","i","t","t","e","r">>, <<"t","w","i","t","t","e","r",".","c","o","m">> >>,
       << <<"f","a","c","e","b","o","o","k">>, <<"f","a","c","e","b","o","o","k",".","c","o","m">> >>,
       << <<"l","i","n","k","e","d","i","n">>, <<"l","i","n","k","e","d","i","n",".","c","o","m">> >>,
       << <<"i","n","s","t","a","g","r","a","m">>, <<"i","n","s","t","a","g","r","a","m",".","c","o","m">> >>,
       << <<"n","e","t","f","l","i","x">>, <<"n","e","t","f","l","i","x",".","c","o","m">> >>,
       << <<"a","m","a","z","o","n">>, <<"a","m","a","z","o","n",".","c","o","m">> >>,
       << <<"g","o","o","g","l","e">>, <<"g","o","o","g","l","e",".","c","o","m">> >>,
       << <<"g","m","a","i","l">>, <<"g","m","a","i","l",".","c","o","m">> >> >>

_extract_url_from_title(title) ==
    IF title = <<>> THEN <<>>
    ELSE LET title_lower == lower(title)
             hits == {k \in 1..Len(known_sites) :
                         contains(known_sites[k][1], title_lower)}
         IN  IF hits = {} THEN <<>> ELSE known_sites[MinOf(hits)][2]

\* The windows the probe can report: application, process and title are
\* what the window system says; is_browser and url are derived from them.
RawWindows ==
    [ w_code     |-> [app_name |-> <<"c","o","d","e">>, process_name |-> <<"c","o","d","e">>,
                      window_title |-> <<"m","a","i","n",".","p","y"," ","-"," ","m","y","p","r","o","j"," ","-"," ","V","S"," ","C","o","d","e">>],
      w_term     |-> [app_name |-> <<"g","n","o","m","e","-","t","e","r","m","i","n","a","l">>, process_name |-> <<"g","n","o","m","e","-","t","e","r","m","i","n","a","l","-">>,
                      window_title |-> <<"~","/","s","r","c">>],
      w_vlc      |-> [app_name |-> <<"v","l","c">>, process_name |-> <<"v","l","c">>,
                      window_title |-> <<"m","o","v","i","e",".","m","k","v"," ","-"," ","V","L","C">>],
      w_files    |-> [app_name |-> <<"F","i","l","e","s">>, process_name |-> <<"n","a","u","t","i","l","u","s">>,
                      window_title |-> <<"H","o","m","e">>],
      w_youtube  |-> [app_name |-> <<"F","i","r","e","f","o","x">>, process_name |-> <<"f","i","r","e","f","o","x">>,
                      window_title |-> <<"L","o","-","f","i"," ","b","e","a","t","s"," ","-"," ","Y","o","u","T","u","b","e">>],
      w_course   |-> [app_name |-> <<"F","i","r","e","f","o","x">>, process_name |-> <<"f","i","r","e","f","o","x">>,
                      window_title |-> <<"P","y","t","h","o","n"," ","c","o","u","r","s","e"," ","-"," ","Y","o","u","T","u","b","e">>],
      w_github   |-> [app_name |-> <<"G","o","o","g","l","e"," ","C","h","r","o","m","e">>, process_name |-> <<"c","h","r","o","m","e">>,
                      window_title |-> <<"G","i","t","H","u","b"," ","-"," ","p","u","l","l","s">>],
      w_reddit   |-> [app_name |-> <<"F","i","r","e","f","o","x">>, process_name |-> <<"f","i","r","e","f","o","x">>,
                      window_title |-> <<"r","e","d","d","i","t",":"," ","f","r","o","n","t"," ","p","a","g","e">>],
      w_news     |-> [app_name |-> <<"F","i","r","e","f","o","x">>, process_name |-> <<"f","i","r","e","f","o","x">>,
                      window_title |-> <<"H","a","c","k","e","r"," ","N","e","w","s">>],
      w_keepass  |-> [app_name |-> <<"K","e","e","P","a","s","s","X","C">>, process_name |-> <<"k","e","e","p","a","s","s","x","c">>,
                      window_title |-> <<"V","a","u","l","t",".","k","d","b","x">>],
      w_vault    |-> [app_name |-> <<"V","a","u","l","t">>, process_name |-> <<"B","i","t","w","a","r","d","e","n">>,
                      window_title |-> <<"I","t","e","m","s">>],
      w_private  |-> [app_name |-> <<"F","i","r","e","f","o","x">>, process_name |-> <<"f","i","r","e","f","o","x">>,
                      window_title |-> <<"M","o","z","i","l","l","a"," ","F","i","r","e","f","o","x"," ","(","P","r","i","v","a","t","e"," ","B","r","o","w","s","i","n","g",")">>] ]

WindowIds == DOMAIN RawWindows

\* WindowInfo as built by WindowMonitor._get_window_x11
WindowInfo(w) ==
    LET raw == RawWindows[w]
        is_browser == anyIn(BROWSER_NAMES, lower(raw.app_name))
    IN  [ app_name     |-> raw.app_name,
          process_name |-> raw.process_name,
          window_title |-> raw.window_title,
          is_browser   |-> is_browser,
          url          |-> IF is_browser
                           THEN _extract_url_from_title(raw.window_title)
                           ELSE <<>> ]

(***************************************************************************)
(* Configuration: privacy exclusion                                        *)
(***************************************************************************)
\* privacy.excluded_apps and privacy.excluded_title_keywords: the defaults,
\* with one entry written in mixed case as a user's file may have it
excluded_apps == << <<"K","e","e","P","a","s","s","X","C">>, <<"b","i","t","w","a","r","d","e","n">>, <<"1","p","a","s","s","w","o","r","d">>, <<"g","n","o","m","e","-","k","e","y","r","i","n","g">> >>

excluded_title_keywords == << <<"p","a","s","s","w","o","r","d">>, <<"p","r","i","v","a","t","e">>, <<"i","n","c","o","g","n","i","t","o">>, <<"s","e","c","r","e","t">> >>

is_app_excluded(app_name) ==
    \E k \in 1..Len(excluded_apps) :
        contains(lower(excluded_apps[k]), lower(app_name))

is_title_excluded(title) ==
    \E k \in 1..Len(excluded_title_keywords) :
        contains(lower(excluded_title_keywords[k]), lower(title))

\* an exclusion that looks at the application name and the title only
_should_exclude_window_app_only(window_info) ==
    \/ is_app_excluded(window_info.app_name)
    \/ is_title_excluded(window_info.window_title)

_should_exclude_window(window_info) ==
    \/ is_app_excluded(window_info.app_name)
    \/ is_app_excluded(window_info.process_name)
    \/ is_title_excluded(window_info.window_title)

(***************************************************************************)
(* URL analyzer                                                            *)
(***************************************************************************)
\* URLAnalyzer.SITE_RULES in dictionary order: domain, category, activity
SITE_RULES ==
    << << <<"y","o","u","t","u","b","e",".","c","o","m">>, <<"v","i","d","e","o","_","s","t","r","e","a","m","i","n","g">>, "entertainment" >>,
       << <<"y","o","u","t","u",".","b","e">>, <<"v","i","d","e","o","_","s","t","r","e","a","m","i","n","g">>, "entertainment" >>,
       << <<"n","e","t","f","l","i","x",".","c","o","m">>, <<"v","i","d","e","o","_","s","t","r","e","a","m","i","n","g">>, "entertainment" >>,
       << <<"t","w","i","t","c","h",".","t","v">>, <<"l","i","v","e","_","s","t","r","e","a","m","i","n","g">>, "entertainment" >>,
       << <<"v","i","m","e","o",".","c","o","m">>, <<"v","i","d","e","o","_","s","t","r","e","a","m","i","n","g">>, "neutral" >>,
       << <<"f","a","c","e","b","o","o","k",".","c","o","m">>, <<"s","o","c","i","a","l","_","m","e","d","i","a">>, "social_media" >>,
       << <<"t","w","i","t","t","e","r",".","c","o","m">>, <<"s","o","c","i","a","l","_","m","e","d","i","a">>, "social_media" >>,
       << <<"x",".","c","o","m">>, <<"s","o","c","i","a","l","_","m","e","d","i","a">>, "social_media" >>,
       << <<"i","n","s","t","a","g","r","a","m",".","c","o","m">>, <<"s","o","c","i","a","l","_","m","e","d","i","a">>, "social_media" >>,
       << <<"t","i","k","t","o","k",".","c","o","m">>, <<"s","o","c","i","a","l","_","m","e","d","i","a">>, "social_media" >>,
       << <<"r","e","d","d","i","t",".","c","o","m">>, <<"f","o","r","u","m">>, "social_media" >>,
       << <<"l","i","n","k","e","d","i","n",".","c","o","m">>, <<"p","r","o","f","e","s","s","i","o","n","a","l">>, "productive" >>,
       << <<"g","i","t","h","u","b",".","c","o","m">>, <<"d","e","v","e","l","o","p","m","e","n","t">>, "productive" >>,
       << <<"g","i","t","l","a","b",".","c","o","m">>, <<"d","e","v","e","l","o","p","m","e","n","t">>, "productive" >>,
       << <<"s","t","a","c","k","o","v","e","r","f","l","o","w",".","c","o","m">>, <<"d","e","v","e","l","o","p","m","e","n","t">>, "productive" >>,
       << <<"d","e","v","e","l","o","p","e","r",".","m","o","z","i","l","l","a",".","o","r","g">>, <<"d","o","c","u","m","e","n","t","a","t","i","o","n">>, "educational" >>,
       << <<"u","d","e","m","y",".","c","o","m">>, <<"l","e","a","r","n","i","n","g">>, "educational" >>,
       << <<"c","o","u","r","s","e","r","a",".","o","r","g">>, <<"l","e","a","r","n","i","n","g">>, "educational" >>,
       << <<"k","h","a","n","a","c","a","d","e","m","y",".","o","r","g">>, <<"l","e","a","r","n","i","n","g">>, "educational" >>,
       << <<"a","m","a","z","o","n",".","c","o","m">>, <<"s","h","o","p","p","i","n","g">>, "shopping" >>,
       << <<"e","b","a","y",".","c","o","m">>, <<"s","h","o","p","p","i","n","g">>, "shopping" >>,
       << <<"b","b","c",".","c","o","m">>, <<"n","e","w","s">>, "news" >>,
       << <<"c","n","n",".","c","o","m">>, <<"n","e","w","s">>, "news" >>,
       << <<"d","o","c","s",".","g","o","o","g","l","e",".","c","o","m">>, <<"p","r","o","d","u","c","t","i","v","i","t","y">>, "productive" >>,
       << <<"n","o","t","i","o","n",".","s","o">>, <<"p","r","o","d","u","c","t","i","v","i","t","y">>, "productive" >>,
       << <<"t","r","e","l","l","o",".","c","o","m">>, <<"p","r","o","d","u","c","t","i","v","i","t","y">>, "productive" >>,
       << <<"m","a","i","l",".","g","o","o","g","l","e",".","c","o","m">>, <<"e","m","a","i","l">>, "productive" >>,
       << <<"o","u","t","l","o","o","k",".","l","i","v","e",".","c","o","m">>, <<"e","m","a","i","l">>, "productive" >> >>

\* URLAnalyzer._extract_domain for a URL given without scheme: the network
\* location in lower case, without a leading www. and without a port
_extract_domain(url) ==
    IF url = <<>> THEN <<>>
    ELSE LET netloc == lower(beforeChar(url, "/"))
             nowww  == IF startswith(netloc, <<"w","w","w",".">>)
                       THEN SubSeq(netloc, 5, Len(netloc)) ELSE netloc
         IN  beforeChar(nowww, ":")

\* URLAnalyzer.analyze; the empty dict is the record with found = FALSE
url_analyze(url) ==
    IF url = <<>> THEN [found |-> FALSE]
    ELSE LET domain == _extract_domain(url)
             hits   == {k \in 1..Len(SITE_RULES) : contains(SITE_RULES[k][1], domain)}
         IN  [ found        |-> TRUE,
               website      |-> domain,
               content_type |-> IF hits = {} THEN <<"o","t","h","e","r">> ELSE SITE_RULES[MinOf(hits)][2],
               activity     |-> IF hits = {} THEN "neutral" ELSE SITE_RULES[MinOf(hits)][3] ]

(***************************************************************************)
(* OCR analyzer                                                            *)
(***************************************************************************)
RECURSIVE collapseSpaces(_)
\* re.sub(r'\s+', ' ', text)
collapseSpaces(t) ==
    IF Len(t) < 2 THEN t
    ELSE IF t[1] = " " /\ t[2] = " " THEN collapseSpaces(Tail(t))
    ELSE <<t[1]>> \o collapseSpaces(Tail(t))

RECURSIVE lstrip(_)
lstrip(t) == IF t # <<>> /\ t[1] = " " THEN lstrip(Tail(t)) ELSE t

RECURSIVE rstrip(_)
rstrip(t) ==
    IF t # <<>> /\ t[Len(t)] = " " THEN rstrip(SubSeq(t, 1, Len(t) - 1)) ELSE t

clean_text(text) == IF text = <<>> THEN <<>> ELSE rstrip(lstrip(collapseSpaces(text)))

\* the keyword table of OCRAnalyzer.analyze_text, in dictionary order
lang_detections ==
    << << "python", << <<"i","m","p","o","r","t"," ">>, <<"d","e","f"," ">>, <<"c","l","a","s","s"," ">>, <<"p","r","i","n","t","(">>, <<"s","e","l","f",".">>, <<"e","l","i","f"," ">>, <<"p","y","t","h","o","n">> >> >>,
       << "javascript", << <<"f","u","n","c","t","i","o","n"," ">>, <<"c","o","n","s","t"," ">>, <<"l","e","t"," ">>, <<"v","a","r"," ">>, <<"=",">">>, <<"c","o","n","s","o","l","e",".">> >> >>,
       << "java", << <<"p","u","b","l","i","c"," ","s","t","a","t","i","c">>, <<"v","o","i","d"," ","m","a","i","n">>, <<"s","y","s","t","e","m",".","o","u","t">>, <<"i","m","p","o","r","t"," ","j","a","v","a">> >> >>,
       << "cpp", << <<"#","i","n","c","l","u","d","e">>, <<"s","t","d",":",":">>, <<"c","o","u","t">>, <<"c","i","n">>, <<"t","e","m","p","l","a","t","e","<">> >> >>,
       << "html", << <<"<","h","t","m","l">>, <<"<","d","i","v">>, <<"<","s","p","a","n">>, <<"<","s","c","r","i","p","t">>, <<"<","!","d","o","c","t","y","p","e">> >> >>,
       << "css", << <<"f","o","n","t","-","s","i","z","e",":">>, <<"m","a","r","g","i","n",":">>, <<"p","a","d","d","i","n","g",":">>, <<"@","m","e","d","i","a">> >> >>,
       << "sql", << <<"s","e","l","e","c","t"," ">>, <<"f","r","o","m"," ">>, <<"w","h","e","r","e"," ">>, <<"i","n","s","e","r","t"," ">>, <<"u","p","d","a","t","e"," ">> >> >> >>

\* OCRAnalyzer.analyze_text: programming_language ("" when none) and the
\* content_suggestions; the empty dict has neither
analyze_text(raw) ==
    IF raw = <<>> \/ Len(raw) < 3
    THEN [programming_language |-> "", content_suggestions |-> {}]
    ELSE LET text_lower == lower(clean_text(raw))
             langs == {k \in 1..Len(lang_detections) :
                          anyIn(lang_detections[k][2], text_lower)}
             lang  == IF langs = {} THEN "" ELSE lang_detections[MinOf(langs)][1]
         IN  [ programming_language |-> lang,
               content_suggestions  |->
                   (IF lang # "" THEN {"coding"} ELSE {})
                   \cup (IF anyIn(<< <<"t","u","t","o","r","i","a","l">>, <<"l","e","a","r","n">>, <<"h","o","w"," ","t","o">>, <<"g","u","i","d","e">>, <<"c","o","u","r","s","e">> >>, text_lower)
                         THEN {"tutorial"} ELSE {})
                   \cup (IF anyIn(<< <<"s","u","b","s","c","r","i","b","e">>, <<"l","i","k","e">>, <<"c","o","m","m","e","n","t">>, <<"s","h","a","r","e">>, <<"v","i","e","w","s">> >>, text_lower)
                         THEN {"video"} ELSE {})
                   \cup (IF anyIn(<< <<"e","p","i","s","o","d","e">>, <<"s","e","a","s","o","n">>, <<"s","e","r","i","e","s">>, <<"a","n","i","m","e">> >>, text_lower)
                         THEN {"entertainment"} ELSE {}) ]

\* the names of the programming languages as they are spliced into
\* content_category
langName(lang) ==
    CASE lang = "python" -> <<"p","y","t","h","o","n">>
      [] lang = "javascript" -> <<"j","a","v","a","s","c","r","i","p","t">>
      [] lang = "java" -> <<"j","a","v","a">>
      [] lang = "cpp" -> <<"c","p","p">>
      [] lang = "html" -> <<"h","t","m","l">>
      [] lang = "css" -> <<"c","s","s">>
      [] lang = "sql" -> <<"s","q","l">>
      [] OTHER -> <<>>

(***************************************************************************)
(* Classification pipeline (ContentClassifier)                             *)
(***************************************************************************)
Max(a, b) == IF a >= b THEN a ELSE b

\* the result dict classify() starts from
InitialResult ==
    [ content_type        |-> "unknown",
      content_category    |-> <<>>,
      content_description |-> <<>>,
      activity_type       |-> "neutral",
      is_productive       |-> FALSE,
      productivity_score  |-> 0,
      detection_method    |-> "rules",
      confidence          |-> 0,
      nsfw_score          |-> 0,
      is_nsfw             |-> FALSE,
      extracted_text      |-> <<>> ]

_merge_url_result(result, url_result) ==
    LET r1 == IF url_result.website # <<>>
              THEN [result EXCEPT !.content_type = "browser"] ELSE result
        r2 == IF url_result.content_type # <<>>
              THEN [r1 EXCEPT !.content_category = url_result.content_type] ELSE r1
    IN  IF url_result.activity # ""
        THEN [r2 EXCEPT !.activity_type = url_result.activity,
                        !.confidence = Max(r2.confidence, 70)]
        ELSE r2

_merge_ocr_result(result, ocr_result) ==
    LET r1 == IF ocr_result.programming_language # ""
              THEN [result EXCEPT
                      !.content_type = "code",
                      !.content_category =
                          <<"c","o","d","i","n","g","_">> \o langName(ocr_result.programming_language),
                      !.activity_type = "productive",
                      !.confidence = Max(result.confidence, 80)]
              ELSE result
    IN  IF "tutorial" \in ocr_result.content_suggestions
        THEN [r1 EXCEPT !.activity_type = "educational"]
        ELSE IF "entertainment" \in ocr_result.content_suggestions
        THEN [r1 EXCEPT !.activity_type = "entertainment"]
        ELSE r1

_merge_image_result(result, img_result) ==
    IF img_result.layout_type = "simple" /\ result.content_type = "unknown"
    THEN [result EXCEPT !.content_type = "video"]
    ELSE result

\* the activity_map of _merge_clip_result
activity_map ==
    << << <<"t","u","t","o","r","i","a","l">>, "educational" >>,
       << <<"c","o","d","i","n","g">>, "productive" >>,
       << <<"d","o","c","u","m","e","n","t","a","r","y">>, "educational" >>,
       << <<"g","a","m","i","n","g">>, "gaming" >>,
       << <<"a","n","i","m","e">>, "entertainment" >>,
       << <<"c","a","r","t","o","o","n">>, "entertainment" >>,
       << <<"m","u","s","i","c","_","v","i","d","e","o">>, "entertainment" >>,
       << <<"m","o","v","i","e","_","s","e","r","i","e","s">>, "entertainment" >>,
       << <<"c","o","m","e","d","y">>, "entertainment" >>,
       << <<"v","l","o","g">>, "entertainment" >>,
       << <<"l","i","v","e","_","s","t","r","e","a","m">>, "entertainment" >>,
       << <<"s","o","c","i","a","l","_","f","e","e","d">>, "social_media" >>,
       << <<"n","e","w","s">>, "news" >>,
       << <<"s","p","o","r","t","s">>, "entertainment" >>,
       << <<"a","d","u","l","t">>, "adult" >> >>

\* activity_map.get(classification, default)
activity_map_get(classification, default) ==
    LET hits == {k \in 1..Len(activity_map) : activity_map[k][1] = classification}
    IN  IF hits = {} THEN default ELSE activity_map[MinOf(hits)][2]

\* a merge that also overwrites on equal confidence
_merge_clip_result_ge(result, clip_result) ==
    IF clip_result.confidence >= result.confidence /\ clip_result.classification # <<>>
    THEN [result EXCEPT
            !.content_category = clip_result.classification,
            !.confidence = clip_result.confidence,
            !.detection_method = "clip",
            !.activity_type =
                activity_map_get(clip_result.classification, result.activity_type)]
    ELSE result

_merge_clip_result(result, clip_result) ==
    IF clip_result.confidence > result.confidence /\ clip_result.classification # <<>>
    THEN [result EXCEPT
            !.content_category = clip_result.classification,
            !.confidence = clip_result.confidence,
            !.detection_method = "clip",
            !.activity_type =
                activity_map_get(clip_result.classification, result.activity_type)]
    ELSE result

\* rules that assign their confidence instead of merging it
_apply_rules_assigning(result, app_name, window_title, is_browser) ==
    LET app_lower   == lower(app_name)
        title_lower == lower(window_title)
    IN  IF anyIn(<< <<"c","o","d","e">>, <<"s","u","b","l","i","m","e">>, <<"a","t","o","m">>, <<"v","i","m">>, <<"e","m","a","c","s">>, <<"i","d","e","a">>, <<"p","y","c","h","a","r","m">> >>, app_lower)
        THEN [result EXCEPT !.content_type = "code",
                            !.activity_type = "productive",
                            !.confidence = 90]
        ELSE IF anyIn(<< <<"t","e","r","m","i","n","a","l">>, <<"k","o","n","s","o","l","e">>, <<"x","t","e","r","m">>, <<"a","l","a","c","r","i","t","t","y">>, <<"k","i","t","t","y">> >>, app_lower)
        THEN [result EXCEPT !.content_type = "terminal",
                            !.activity_type = "productive",
                            !.confidence = 85]
        ELSE IF anyIn(<< <<"v","l","c">>, <<"m","p","v">>, <<"t","o","t","e","m">>, <<"c","e","l","l","u","l","o","i","d">> >>, app_lower)
        THEN [result EXCEPT !.content_type = "video",
                            !.activity_type = "entertainment",
                            !.confidence = 80]
        ELSE IF is_browser
        THEN IF contains(<<"y","o","u","t","u","b","e">>, title_lower)
             THEN [result EXCEPT
                     !.content_type = "video",
                     !.content_category = <<"y","o","u","t","u","b","e">>,
                     !.activity_type =
                         IF anyIn(<< <<"t","u","t","o","r","i","a","l">>, <<"l","e","a","r","n">>, <<"c","o","u","r","s","e">>, <<"h","o","w"," ","t","o">> >>, title_lower)
                         THEN "educational" ELSE "entertainment"]
             ELSE IF contains(<<"g","i","t","h","u","b">>, title_lower)
             THEN [result EXCEPT !.content_type = "code",
                                 !.activity_type = "productive"]
             ELSE IF anyIn(<< <<"f","a","c","e","b","o","o","k">>, <<"t","w","i","t","t","e","r">>, <<"i","n","s","t","a","g","r","a","m">>, <<"r","e","d","d","i","t">> >>, title_lower)
             THEN [result EXCEPT !.content_type = "social_feed",
                                 !.activity_type = "social_media"]
             ELSE result
        ELSE result

_apply_rules(result, app_name, window_title, is_browser) ==
    LET app_lower   == lower(app_name)
        title_lower == lower(window_title)
    IN  IF anyIn(<< <<"c","o","d","e">>, <<"s","u","b","l","i","m","e">>, <<"a","t","o","m">>, <<"v","i","m">>, <<"e","m","a","c","s">>, <<"i","d","e","a">>, <<"p","y","c","h","a","r","m">> >>, app_lower)
        THEN [result EXCEPT !.content_type = "code",
                            !.activity_type = "productive",
                            !.confidence = Max(result.confidence, 90)]
        ELSE IF anyIn(<< <<"t","e","r","m","i","n","a","l">>, <<"k","o","n","s","o","l","e">>, <<"x","t","e","r","m">>, <<"a","l","a","c","r","i","t","t","y">>, <<"k","i","t","t","y">> >>, app_lower)
        THEN [result EXCEPT !.content_type = "terminal",
                            !.activity_type = "productive",
                            !.confidence = Max(result.confidence, 85)]
        ELSE IF anyIn(<< <<"v","l","c">>, <<"m","p","v">>, <<"t","o","t","e","m">>, <<"c","e","l","l","u","l","o","i","d">> >>, app_lower)
        THEN [result EXCEPT !.content_type = "video",
                            !.activity_type = "entertainment",
                            !.confidence = Max(result.confidence, 80)]
        ELSE IF is_browser
        THEN IF contains(<<"y","o","u","t","u","b","e">>, title_lower)
             THEN [result EXCEPT
                     !.content_type = "video",
                     !.content_category = <<"y","o","u","t","u","b","e">>,
                     !.activity_type =
                         IF anyIn(<< <<"t","u","t","o","r","i","a","l">>, <<"l","e","a","r","n">>, <<"c","o","u","r","s","e">>, <<"h","o","w"," ","t","o">> >>, title_lower)
                         THEN "educational" ELSE "entertainment"]
             ELSE IF contains(<<"g","i","t","h","u","b">>, title_lower)
             THEN [result EXCEPT !.content_type = "code",
                                 !.activity_type = "productive"]
             ELSE IF anyIn(<< <<"f","a","c","e","b","o","o","k">>, <<"t","w","i","t","t","e","r">>, <<"i","n","s","t","a","g","r","a","m">>, <<"r","e","d","d","i","t">> >>, title_lower)
             THEN [result EXCEPT !.content_type = "social_feed",
                                 !.activity_type = "social_media"]
             ELSE result
        ELSE result

\* the weight table, in tenths; scores.get(activity_type, 0.0)
_calculate_productivity(activity_type) ==
    CASE activity_type = "productive"    -> 10
      [] activity_type = "educational"   -> 8
      [] activity_type = "neutral"       -> 0
      [] activity_type = "news"          -> -1
      [] activity_type = "shopping"      -> -2
      [] activity_type = "entertainment" -> -3
      [] activity_type = "social_media"  -> -4
      [] activity_type = "gaming"        -> -3
      [] activity_type = "adult"         -> -10
      [] OTHER                           -> 0

isAlpha(c) == \E i \in 1..26 : UpperChars[i] = c \/ LowerChars[i] = c

\* content_category.replace('_', ' ').title()
titleOf(s) ==
    LET t == [i \in 1..Len(s) |-> IF s[i] = "_" THEN " " ELSE s[i]]
    IN  [i \in 1..Len(t) |->
            IF i = 1 \/ ~isAlpha(t[i - 1]) THEN upperChar(t[i]) ELSE lowerChar(t[i])]

_generate_description(result, app_name, window_title) ==
    LET activity_type    == result.activity_type
        content_category == result.content_category
    IN  CASE activity_type = "productive" ->
                 IF contains(<<"c","o","d","e">>, content_category)
                 THEN <<"C","o","d","i","n","g"," ","i","n"," ">> \o app_name
                 ELSE <<"W","o","r","k","i","n","g"," ","i","n"," ">> \o app_name
          [] activity_type = "educational" ->
                 <<"L","e","a","r","n","i","n","g",":"," ">> \o titleOf(content_category)
          [] activity_type = "entertainment" ->
                 IF content_category # <<>>
                 THEN <<"W","a","t","c","h","i","n","g",":"," ">> \o titleOf(content_category)
                 ELSE <<"E","n","t","e","r","t","a","i","n","m","e","n","t"," ","i","n"," ">> \o app_name
          [] activity_type = "social_media" -> <<"B","r","o","w","s","i","n","g"," ","s","o","c","i","a","l"," ","m","e","d","i","a">>
          [] activity_type = "gaming" -> <<"P","l","a","y","i","n","g"," ","g","a","m","e">>
          [] OTHER -> IF app_name # <<>> THEN <<"U","s","i","n","g"," ">> \o app_name
                      ELSE <<"U","n","k","n","o","w","n"," ","a","c","t","i","v","i","t","y">>

\* The stages of classify(), each from the result so far.  A screenshot is
\* a record of what the scorers make of the image:
\*   present  FALSE for None
\*   ocr_raw  the text pytesseract reads (empty when OCR is missing or fails)
\*   layout   the layout_type of the image analysis ("" when it has none)
\*   clip     the dict CLIPAnalyzer.classify returns, or raises = TRUE
\*   nsfw     the dict NSFWDetector.detect returns, or raises = TRUE
StageURL(result, window_info) ==
    IF window_info.url # <<>> /\ url_analyze(window_info.url).found
    THEN _merge_url_result(result, url_analyze(window_info.url))
    ELSE result

\* OCRAnalyzer.extract_text
extract_text(screenshot) == clean_text(screenshot.ocr_raw)

StageOCR(result, screenshot) ==
    IF screenshot.present /\ extract_text(screenshot) # <<>>
    THEN _merge_ocr_result(
             [result EXCEPT !.extracted_text = prefix(extract_text(screenshot), 500)],
             analyze_text(extract_text(screenshot)))
    ELSE result

StageImage(result, screenshot) ==
    IF screenshot.present
    THEN _merge_image_result(result, [layout_type |-> screenshot.layout])
    ELSE result

StageCLIP(result, screenshot) ==
    IF screenshot.present /\ ~screenshot.clip.raises /\ screenshot.clip.confidence > 30
    THEN _merge_clip_result(result, screenshot.clip)
    ELSE result

StageNSFW(result, screenshot) ==
    IF screenshot.present /\ ~screenshot.nsfw.raises
    THEN LET r1 == [result EXCEPT !.nsfw_score = screenshot.nsfw.nsfw_score,
                                  !.is_nsfw = screenshot.nsfw.is_nsfw]
         IN  IF r1.is_nsfw
             THEN [r1 EXCEPT !.activity_type = "adult",
                             !.content_category = <<"a","d","u","l","t","_","c","o","n","t","e","n","t">>]
             ELSE r1
    ELSE result

\* a pipeline without the rule stage
StageRules_skipped(result, window_info) == result

StageRules(result, window_info) ==
    _apply_rules(result, window_info.app_name, window_info.window_title,
                 window_info.is_browser)

\* a final step that takes a score of zero for productive
StageFinal_zero_productive(result, window_info) ==
    LET score == _calculate_productivity(result.activity_type)
        r1    == [result EXCEPT !.productivity_score = score,
                                !.is_productive = (score >= 0)]
    IN  IF r1.content_description = <<>>
        THEN [r1 EXCEPT !.content_description =
                 _generate_description(r1, window_info.app_name, window_info.window_title)]
        ELSE r1

StageFinal(result, window_info) ==
    LET score == _calculate_productivity(result.activity_type)
        r1    == [result EXCEPT !.productivity_score = score,
                                !.is_productive = (score > 0)]
    IN  IF r1.content_description = <<>>
        THEN [r1 EXCEPT !.content_description =
                 _generate_description(r1, window_info.app_name, window_info.window_title)]
        ELSE r1

\* classify(screenshot, window_info)
classify(screenshot, window_info) ==
    LET r1 == StageURL(InitialResult, window_info)
        r2 == StageOCR(r1, screenshot)
        r3 == StageImage(r2, screenshot)
        r4 == StageCLIP(r3, screenshot)
        r5 == StageNSFW(r4, screenshot)
        r6 == StageRules(r5, window_info)
    IN  StageFinal(r6, window_info)

\* classify() called without a window: getattr defaults
NoWindowInfo ==
    [ app_name |-> <<>>, process_name |-> <<>>, window_title |-> <<>>,
      is_browser |-> FALSE, url |-> <<>> ]

(***************************************************************************)
(* Bounds and inputs                                                       *)
(***************************************************************************)
\* capacity of the analysis queue in the model (queue.Queue(maxsize=100))
QueueMax == 1

\* number of capture cycles explored: enough to fill the queue and drop one
MaxTicks == 2

\* number of start() calls that go through
MaxStarts == 2

\* monitoring.screenshot_interval
Interval == 30

Generations == 1..MaxStarts

\* what the screen probe can return to the daemon: an image none of the
\* scorers makes anything of, and an image showing source code
PlainShot ==
    [ present |-> TRUE, ocr_raw |-> <<>>, layout |-> "complex",
      clip |-> [raises |-> FALSE, classification |-> <<"u","n","k","n","o","w","n">>, confidence |-> 0],
      nsfw |-> [raises |-> FALSE, is_nsfw |-> FALSE, nsfw_score |-> 0] ]

NoShot ==
    [ present |-> FALSE, ocr_raw |-> <<>>, layout |-> "",
      clip |-> [raises |-> FALSE, classification |-> <<"u","n","k","n","o","w","n">>, confidence |-> 0],
      nsfw |-> [raises |-> FALSE, is_nsfw |-> FALSE, nsfw_score |-> 0] ]

\* texts the OCR can read off an image (raw, before clean_text)
OcrTexts ==
    { <<>>, <<"o","k">>, <<"d","e","f"," "," ","m","a","i","n","(",")",":"," ","i","m","p","o","r","t"," ","o","s"," ">>, <<"p","y","t","h","o","n"," ","t","u","t","o","r","i","a","l",":"," ","l","e","a","r","n"," ","n","u","m","p","y">>,
      <<"s","e","a","s","o","n"," ","2"," ","e","p","i","s","o","d","e"," ","5">>, <<"h","e","l","l","o"," ","w","o","r","l","d">> }

Layouts == {"", "simple", "complex"}

ClipConfidences == {30, 50, 70, 80, 95}

ClipResults ==
    { [raises |-> TRUE, classification |-> <<>>, confidence |-> 0],
      [raises |-> FALSE, classification |-> <<"u","n","k","n","o","w","n">>, confidence |-> 0] }
    \cup [ raises : {FALSE},
           classification : { <<"m","o","v","i","e","_","s","e","r","i","e","s">>, <<"c","o","d","i","n","g">>, <<"a","r","t","i","c","l","e">> },
           confidence : ClipConfidences ]

NsfwResults ==
    { [raises |-> TRUE, is_nsfw |-> FALSE, nsfw_score |-> 0],
      [raises |-> FALSE, is_nsfw |-> FALSE, nsfw_score |-> 0],
      [raises |-> FALSE, is_nsfw |-> TRUE, nsfw_score |-> 90] }

\* the screenshots classify() is exercised with
Screenshots ==
    {NoShot} \cup [ present : {TRUE}, ocr_raw : OcrTexts, layout : Layouts,
                    clip : ClipResults, nsfw : NsfwResults ]

\* the windows classify() is exercised with
ClassifyWindows == {WindowInfo(w) : w \in WindowIds} \cup {NoWindowInfo}

\* what the probes hand to the daemon
DaemonWindows == {"w_code", "w_keepass", "w_vault", "w_private"}

DaemonShots == {PlainShot}

StopCallers == {"prog", "sig"}

(***************************************************************************)
(* State                                                                   *)
(***************************************************************************)
VARIABLES
    \* DaemonState
    is_running, is_paused, last_capture_time, last_window,
    total_captures, total_analyses, errors,
    \* ContentTrackerDaemon
    stop_event,          \* self._stop_event
    analysis_queue,      \* self._analysis_queue
    analysis_thread,     \* self._analysis_thread: a generation, 0 for None
    main_thread,         \* self._main_thread: a generation, 0 for None
    content_classifier,  \* self._content_classifier is not None
    skip_unchanged,      \* config.detection.skip_unchanged
    \* threads and calls in progress
    sPc,                 \* position of each _main_loop
    wPc,                 \* position of each _analysis_worker
    wItem,               \* the item an _analysis_worker holds
    stPc,                \* position of each stop() call
    blockingGen,         \* the generation whose _main_loop runs inside start()
    starts,              \* start() calls that went through
    \* environment
    clock,               \* datetime.now(), one unit per capture cycle
    sink,                \* rows of the activities table, in insertion order
    \* history
    captured,            \* items of the successful captures, in order
    dropped,             \* timestamps of captures dropped on a full queue
    dequeues,            \* number of items taken off the queue
    cleanups,            \* _cleanup() calls since the last start()
    stopReturned,        \* a stop() that ran _cleanup has returned since the last start()
    lastTick,            \* what the capture cycle that just ended did
    start_raised,        \* the last start() call ended in an exception
    wOutcome,            \* how the worker's try block ended for its last item
    \* one get_status() call
    gsPc,                \* the next field get_status() reads
    gsView,              \* the dictionary get_status() is building
    \* Config and the readers of it
    config,              \* Config._config: the privacy lists
    config_file,         \* the privacy lists the user's config.yaml sets
    loaded_config,       \* what the last load() that returned left in _config
    rlPc,                \* position of _reload_handler
    rlTodo,              \* keys of the file _merge_config has yet to assign
    exPc,                \* position of a _should_exclude_window call
    exWindow,            \* the window that call is about
    \* the except clauses of the two loops
    exc_pc,              \* position of each loop's thread in its except clause
    exc_loaded,          \* the value of state.errors each thread has read
    exc_caught,          \* exceptions the except clauses of the loops caught
    cap_pending,         \* the capture each _main_loop is about to count
    \* one classify() call
    c_window, c_shot, c_pc, c_hist

daemonVars ==
    << is_running, is_paused, last_capture_time, last_window,
       total_captures, total_analyses, errors, stop_event, analysis_queue,
       analysis_thread, main_thread, content_classifier, skip_unchanged,
       sPc, wPc, wItem, stPc, blockingGen, starts, clock, sink,
       captured, dropped, dequeues, cleanups, stopReturned, lastTick,
       start_raised, wOutcome, gsPc, gsView, config, config_file,
       loaded_config, rlPc, rlTodo, exPc, exWindow,
       exc_pc, exc_loaded, exc_caught, cap_pending >>

statusVars == << gsPc, gsView >>

reloadVars == << config, config_file, loaded_config, rlPc, rlTodo, exPc, exWindow >>

\* what the steps of the scheduler, the worker and stop() leave alone
callVars == << statusVars, reloadVars, start_raised, wOutcome >>

classifyVars == << c_window, c_shot, c_pc, c_hist >>

\* the threads of the two loops
LoopThreads == {"main_loop", "analysis_worker"}

counterVars == << exc_pc, exc_loaded, exc_caught, cap_pending >>

vars == << daemonVars, classifyVars >>

NoItem == [window_info |-> "none", screenshot |-> NoShot, timestamp |-> 0]

\* no capture is waiting to be counted
NoPending == [item |-> NoItem, loaded |-> 0]

NoTick ==
    [ timestamp |-> 0, idle |-> FALSE, window_info |-> "none",
      probes |-> {}, enqueued |-> FALSE, inserted |-> FALSE ]

\* get_status() has read nothing yet
NoView ==
    [ is_running |-> FALSE, is_paused |-> FALSE, total_captures |-> 0,
      total_analyses |-> 0, errors |-> 0, last_window |-> "none",
      queue_size |-> 0 ]

\* DEFAULT_CONFIG['privacy']: the two lists the exclusion check reads
DEFAULT_PRIVACY ==
    [ excluded_apps |-> excluded_apps,
      excluded_title_keywords |-> excluded_title_keywords ]

\* no config.yaml, or one that sets neither list
NoFile == [ k \in {} |-> <<>> ]

\* the daemon as __init__ leaves it
DaemonInit ==
    /\ is_running = FALSE
    /\ is_paused = FALSE
    /\ last_capture_time = 0
    /\ last_window = "none"
    /\ total_captures = 0
    /\ total_analyses = 0
    /\ errors = 0
    /\ stop_event = FALSE
    /\ analysis_queue = <<>>
    /\ analysis_thread = 0
    /\ main_thread = 0
    /\ content_classifier = FALSE
    /\ skip_unchanged \in BOOLEAN
    /\ sPc = [g \in Generations |-> "none"]
    /\ wPc = [g \in Generations |-> "none"]
    /\ wItem = [g \in Generations |-> NoItem]
    /\ stPc = [c \in StopCallers |-> "idle"]
    /\ blockingGen = 0
    /\ starts = 0
    /\ clock = 0
    /\ sink = <<>>
    /\ captured = <<>>
    /\ dropped = {}
    /\ dequeues = 0
    /\ cleanups = 0
    /\ stopReturned = FALSE
    /\ lastTick = NoTick
    /\ start_raised = FALSE
    /\ wOutcome = [g \in Generations |-> "none"]
    /\ gsPc = "idle"
    /\ gsView = NoView
    /\ config = DEFAULT_PRIVACY
    /\ config_file = NoFile
    /\ loaded_config = DEFAULT_PRIVACY
    /\ rlPc = "idle"
    /\ rlTodo = {}
    /\ exPc = "idle"
    /\ exWindow = "none"
    /\ exc_pc = [t \in LoopThreads |-> "try"]
    /\ exc_loaded = [t \in LoopThreads |-> 0]
    /\ exc_caught = 0
    /\ cap_pending = [g \in Generations |-> NoPending]

\* no classify() call under way
ClassifyIdle ==
    /\ c_window = NoWindowInfo
    /\ c_shot = NoShot
    /\ c_pc = "idle"
    /\ c_hist = <<>>

(***************************************************************************)
(* classify(), one stage per step                                          *)
(***************************************************************************)
Last(h) == h[Len(h)]

ClassifyInit ==
    /\ c_window \in ClassifyWindows
    /\ c_shot \in Screenshots
    /\ c_pc = "url"
    /\ c_hist = << InitialResult >>

ClassifyStep(from, to, result) ==
    /\ c_pc = from
    /\ c_pc' = to
    /\ c_hist' = Append(c_hist, result)
    /\ UNCHANGED << c_window, c_shot, daemonVars >>

DoURL == ClassifyStep("url", "ocr", StageURL(Last(c_hist), c_window))

DoOCR == ClassifyStep("ocr", "image", StageOCR(Last(c_hist), c_shot))

DoImage == ClassifyStep("image", "clip", StageImage(Last(c_hist), c_shot))

\* a CLIP stage whose exception leaves classify() through the outer except
DoCLIP_unguarded ==
    IF c_shot.present /\ c_shot.clip.raises
    THEN ClassifyStep("clip", "done", Last(c_hist))
    ELSE ClassifyStep("clip", "nsfw", StageCLIP(Last(c_hist), c_shot))

DoCLIP == ClassifyStep("clip", "nsfw", StageCLIP(Last(c_hist), c_shot))

DoNSFW == ClassifyStep("nsfw", "rules", StageNSFW(Last(c_hist), c_shot))

DoRules == ClassifyStep("rules", "final", StageRules(Last(c_hist), c_window))

DoFinal == ClassifyStep("final", "done", StageFinal(Last(c_hist), c_window))

ClassifyNext == DoURL \/ DoOCR \/ DoImage \/ DoCLIP \/ DoNSFW \/ DoRules \/ DoFinal

\* one classify() call on a daemon object that is not started
SpecClassifyInit == ClassifyInit /\ DaemonInit /\ skip_unchanged

SpecClassify == SpecClassifyInit /\ [][ClassifyNext]_vars

\* the results after each stage of the call under way
AfterURL == c_hist[2]

AfterOCR == c_hist[3]

AfterImage == c_hist[4]

AfterCLIP == c_hist[5]

AfterNSFW == c_hist[6]

AfterRules == c_hist[7]

Returned == c_hist[8]

(***************************************************************************)
(* Daemon: records                                                         *)
(***************************************************************************)
\* ContentTrackerDaemon._basic_classify: the fields it sets on the activity
_basic_classify(window_info) ==
    LET app_lower   == lower(window_info.app_name)
        title_lower == lower(window_info.window_title)
        a == CASE window_info.is_browser ->
                      IF contains(<<"y","o","u","t","u","b","e">>, title_lower) \/ contains(<<"y","o","u","t","u","b","e">>, window_info.url)
                      THEN [content_type |-> "browser", activity_type |-> "entertainment"]
                      ELSE IF contains(<<"g","i","t","h","u","b">>, title_lower) \/ contains(<<"g","i","t","h","u","b">>, window_info.url)
                      THEN [content_type |-> "browser", activity_type |-> "productive"]
                      ELSE IF anyIn(<< <<"f","a","c","e","b","o","o","k">>, <<"t","w","i","t","t","e","r">>, <<"i","n","s","t","a","g","r","a","m">>, <<"r","e","d","d","i","t">> >>, title_lower)
                      THEN [content_type |-> "browser", activity_type |-> "social_media"]
                      ELSE [content_type |-> "browser", activity_type |-> "neutral"]
               [] anyIn(<< <<"c","o","d","e">>, <<"s","u","b","l","i","m","e">>, <<"a","t","o","m">>, <<"v","i","m">>, <<"e","m","a","c","s">>, <<"i","d","e","a">>, <<"p","y","c","h","a","r","m">> >>, app_lower) ->
                      [content_type |-> "code", activity_type |-> "productive"]
               [] anyIn(<< <<"t","e","r","m","i","n","a","l">>, <<"k","o","n","s","o","l","e">>, <<"x","t","e","r","m">>, <<"a","l","a","c","r","i","t","t","y">>, <<"k","i","t","t","y">> >>, app_lower) ->
                      [content_type |-> "terminal", activity_type |-> "productive"]
               [] anyIn(<< <<"v","l","c">>, <<"m","p","v">>, <<"t","o","t","e","m">>, <<"c","e","l","l","u","l","o","i","d">> >>, app_lower) ->
                      [content_type |-> "video", activity_type |-> "entertainment"]
               [] anyIn(<< <<"l","i","b","r","e","o","f","f","i","c","e">>, <<"w","o","r","d">>, <<"e","x","c","e","l">>, <<"w","r","i","t","e","r">>, <<"c","a","l","c">> >>, app_lower) ->
                      [content_type |-> "document", activity_type |-> "productive"]
               [] OTHER ->
                      [content_type |-> "unknown", activity_type |-> "neutral"]
    IN  [ content_type     |-> a.content_type,
          activity_type    |-> a.activity_type,
          detection_method |-> "rules",
          confidence       |-> 50 ]

\* ContentTrackerDaemon._analyze_content: the Activity built for an item
_analyze_content(item, classifier) ==
    LET window_info == WindowInfo(item.window_info)
        c == IF classifier
             THEN classify(item.screenshot, window_info)
             ELSE _basic_classify(window_info)
    IN  [ timestamp     |-> item.timestamp,
          window_info   |-> item.window_info,
          content_type  |-> c.content_type,
          activity_type |-> c.activity_type,
          confidence    |-> c.confidence,
          is_idle       |-> FALSE,
          duration      |-> Interval ]

\* an idle record that does not carry the idle flag
IdleActivity_unflagged(now) ==
    [ timestamp     |-> now,
      window_info   |-> "System",
      content_type  |-> "idle",
      activity_type |-> "idle",
      confidence    |-> 0,
      is_idle       |-> FALSE,
      duration      |-> Interval ]

\* the Activity of _record_idle_activity
IdleActivity(now) ==
    [ timestamp     |-> now,
      window_info   |-> "System",
      content_type  |-> "idle",
      activity_type |-> "idle",
      confidence    |-> 0,
      is_idle       |-> TRUE,
      duration      |-> Interval ]

(***************************************************************************)
(* Daemon: who runs where                                                  *)
(***************************************************************************)
\* The signal handler runs on the main thread, on top of whatever the main
\* thread was doing, which waits until the handler returns.
HandlerActive == stPc["sig"] # "idle"

\* start(blocking=True) has not returned: its _main_loop is still going
InStart ==
    IF blockingGen = 0 THEN FALSE ELSE sPc[blockingGen] \notin {"done", "crashed"}

\* the _main_loop of generation g cannot take a step
Frozen(g) == g = blockingGen /\ HandlerActive

\* the caller's own code (start, stop) can take a step
ProgCanRun == ~HandlerActive /\ ~InStart

CallerCanRun(c) == IF c = "sig" THEN TRUE ELSE ProgCanRun

(***************************************************************************)
(* start(), pause(), resume()                                              *)
(***************************************************************************)
\* start(blocking) from the point where is_running was found false and the
\* components were initialised
StartBody(blocking, classifier) ==
    LET g == starts + 1 IN
    /\ ProgCanRun
    /\ stPc["prog"] = "idle"
    /\ starts < MaxStarts
    /\ ~is_running
    /\ starts' = g
    /\ content_classifier' = classifier
    /\ is_running' = TRUE
    /\ stop_event' = FALSE
    /\ analysis_thread' = g
    /\ wPc' = [wPc EXCEPT ![g] = "loop"]
    /\ sPc' = [sPc EXCEPT ![g] = "loop"]
    /\ IF blocking
       THEN blockingGen' = g /\ UNCHANGED main_thread
       ELSE main_thread' = g /\ UNCHANGED blockingGen
    /\ cleanups' = 0
    /\ stopReturned' = FALSE
    /\ start_raised' = FALSE
    /\ UNCHANGED << is_paused, last_capture_time, last_window, total_captures,
                    total_analyses, errors, analysis_queue, skip_unchanged,
                    wItem, stPc, clock, sink, captured, dropped, dequeues,
                    lastTick, classifyVars, counterVars, statusVars, reloadVars, wOutcome >>

\* a start() that marks the daemon running before its components are there
StartRaises_after_running ==
    /\ ProgCanRun
    /\ stPc["prog"] = "idle"
    /\ starts = 0
    /\ ~is_running
    /\ is_running' = TRUE
    /\ start_raised' = TRUE
    /\ UNCHANGED << is_paused, last_capture_time, last_window,
                    total_captures, total_analyses, errors, stop_event,
                    analysis_queue, analysis_thread, main_thread,
                    content_classifier, skip_unchanged, sPc, wPc, wItem, stPc,
                    blockingGen, starts, clock, sink, captured, dropped,
                    dequeues, cleanups, stopReturned, lastTick, classifyVars, counterVars,
                    statusVars, reloadVars, wOutcome >>

\* the first start() when _initialize_components raises (the screenshot
\* backend, the window monitor or the database cannot be set up): the
\* exception leaves start() before is_running is set and before any thread
\* is created
StartRaises ==
    /\ ProgCanRun
    /\ stPc["prog"] = "idle"
    /\ starts = 0
    /\ ~is_running
    /\ start_raised' = TRUE
    /\ UNCHANGED << is_running, is_paused, last_capture_time, last_window,
                    total_captures, total_analyses, errors, stop_event,
                    analysis_queue, analysis_thread, main_thread,
                    content_classifier, skip_unchanged, sPc, wPc, wItem, stPc,
                    blockingGen, starts, clock, sink, captured, dropped,
                    dequeues, cleanups, stopReturned, lastTick, classifyVars, counterVars,
                    statusVars, reloadVars, wOutcome >>

\* the first start() of the daemon object
Start == starts = 0 /\ \E blocking, classifier \in BOOLEAN : StartBody(blocking, classifier)

\* start() after a stop()
Restart == starts > 0 /\ \E blocking, classifier \in BOOLEAN : StartBody(blocking, classifier)

Pause ==
    /\ ~is_paused
    /\ is_paused' = TRUE
    /\ UNCHANGED << is_running, last_capture_time, last_window, total_captures,
                    total_analyses, errors, stop_event, analysis_queue,
                    analysis_thread, main_thread, content_classifier,
                    skip_unchanged, sPc, wPc, wItem, stPc, blockingGen, starts,
                    clock, sink, captured, dropped, dequeues, cleanups,
                    stopReturned, lastTick, classifyVars, counterVars, callVars >>

Resume ==
    /\ is_paused
    /\ is_paused' = FALSE
    /\ UNCHANGED << is_running, last_capture_time, last_window, total_captures,
                    total_analyses, errors, stop_event, analysis_queue,
                    analysis_thread, main_thread, content_classifier,
                    skip_unchanged, sPc, wPc, wItem, stPc, blockingGen, starts,
                    clock, sink, captured, dropped, dequeues, cleanups,
                    stopReturned, lastTick, classifyVars, counterVars, callVars >>

(***************************************************************************)
(* _main_loop and _do_capture_cycle                                        *)
(***************************************************************************)
\* a loop that runs the capture cycle whether or not the daemon is paused
MainLoopTest_ignoring_pause(g) ==
    /\ sPc[g] = "loop"
    /\ ~Frozen(g)
    /\ sPc' = [sPc EXCEPT ![g] = IF is_running /\ ~stop_event THEN "cycle" ELSE "done"]
    /\ UNCHANGED << is_running, is_paused, last_capture_time, last_window,
                    total_captures, total_analyses, errors, stop_event,
                    analysis_queue, analysis_thread, main_thread,
                    content_classifier, skip_unchanged, wPc, wItem, stPc,
                    blockingGen, starts, clock, sink, captured, dropped,
                    dequeues, cleanups, stopReturned, lastTick, classifyVars, counterVars, callVars >>

\* while self.state.is_running and not self._stop_event.is_set():
\*     if not self.state.is_paused: ...
MainLoopTest(g) ==
    /\ sPc[g] = "loop"
    /\ ~Frozen(g)
    /\ sPc' = [sPc EXCEPT ![g] =
                  IF is_running /\ ~stop_event
                  THEN IF is_paused THEN "wait" ELSE "cycle"
                  ELSE "done"]
    /\ UNCHANGED << is_running, is_paused, last_capture_time, last_window,
                    total_captures, total_analyses, errors, stop_event,
                    analysis_queue, analysis_thread, main_thread,
                    content_classifier, skip_unchanged, wPc, wItem, stPc,
                    blockingGen, starts, clock, sink, captured, dropped,
                    dequeues, cleanups, stopReturned, lastTick, classifyVars, counterVars, callVars >>

\* a queue that makes room by dropping its oldest item
put_nowait_drop_oldest(q, item) ==
    IF Len(q) < QueueMax THEN Append(q, item) ELSE Append(Tail(q), item)

\* self._analysis_queue.put_nowait(item): the queue afterwards
put_nowait(q, item) == IF Len(q) < QueueMax THEN Append(q, item) ELSE q

\* put_nowait raised queue.Full
QueueFull(q) == Len(q) >= QueueMax

\* the attributes of WindowMonitor that _do_capture_cycle calls and that the
\* class defines; calling any other raises AttributeError
WindowMonitorMethods == {"get_active_window", "is_user_idle", "close"}

\* what the idle probe can report
IdleReports == BOOLEAN

\* a cycle whose every return counts as an error
CycleEnd_counting_returns(g, raised, on_error_raises) ==
    /\ errors' = errors + 1
    /\ sPc' = [sPc EXCEPT ![g] =
                  IF ~raised THEN "wait"
                  ELSE IF on_error_raises THEN "crashed" ELSE "sleep"]

\* One _do_capture_cycle call together with the except clause of
\* _main_loop.  raised says whether the cycle ended in an exception;
\* on_error_raises whether the registered error callback raised in turn.
CycleEnd(g, raised, on_error_raises) ==
    /\ errors' = IF raised THEN errors + 1 ELSE errors
    /\ sPc' = [sPc EXCEPT ![g] =
                  IF ~raised THEN "wait"
                  ELSE IF on_error_raises THEN "crashed" ELSE "sleep"]

CaptureCycle(g) ==
    LET now == clock + 1 IN
    /\ sPc[g] = "cycle"
    /\ ~Frozen(g)
    /\ clock < MaxTicks
    /\ clock' = now
    /\ \E idle \in IdleReports :
         IF idle
         THEN \* _record_idle_activity
              \E insert_raises, on_error_raises \in BOOLEAN :
                /\ insert_raises \/ ~on_error_raises
                /\ sink' = IF insert_raises THEN sink ELSE Append(sink, IdleActivity(now))
                /\ lastTick' = [timestamp |-> now, idle |-> TRUE, window_info |-> "none",
                                probes |-> {"idle"}, enqueued |-> FALSE,
                                inserted |-> ~insert_raises]
                /\ CycleEnd(g, insert_raises, on_error_raises)
                /\ UNCHANGED << total_captures, last_capture_time, analysis_queue,
                                captured, dropped, last_window >>
         ELSE \E w \in DaemonWindows \cup {"none"} :
              IF w = "none" \/ _should_exclude_window(WindowInfo(w))
              THEN \* no active window, or an excluded one
                   /\ lastTick' = [timestamp |-> now, idle |-> FALSE, window_info |-> w,
                                   probes |-> {"idle", "window"}, enqueued |-> FALSE,
                                   inserted |-> FALSE]
                   /\ CycleEnd(g, FALSE, FALSE)
                   /\ UNCHANGED << sink, total_captures, last_capture_time,
                                   analysis_queue, captured, dropped, last_window >>
              ELSE IF skip_unchanged /\ "has_window_changed" \notin WindowMonitorMethods
              THEN \* has_window_changed raises AttributeError
                   \E on_error_raises \in BOOLEAN :
                     /\ lastTick' = [timestamp |-> now, idle |-> FALSE, window_info |-> w,
                                     probes |-> {"idle", "window"}, enqueued |-> FALSE,
                                     inserted |-> FALSE]
                     /\ CycleEnd(g, TRUE, on_error_raises)
                     /\ UNCHANGED << sink, total_captures, last_capture_time,
                                     analysis_queue, captured, dropped, last_window >>
              ELSE \E screenshot \in DaemonShots \cup {NoShot} :
                   IF ~screenshot.present
                   THEN \* capture() returned None
                        /\ lastTick' = [timestamp |-> now, idle |-> FALSE, window_info |-> w,
                                        probes |-> {"idle", "window", "screen"},
                                        enqueued |-> FALSE, inserted |-> FALSE]
                        /\ CycleEnd(g, FALSE, FALSE)
                        /\ UNCHANGED << sink, total_captures, last_capture_time,
                                        analysis_queue, captured, dropped, last_window >>
                   ELSE LET item == [window_info |-> w, screenshot |-> screenshot,
                                     timestamp |-> now]
                            attr == "update_last_window" \in WindowMonitorMethods
                        IN  /\ total_captures' = total_captures + 1
                            /\ last_capture_time' = now
                            /\ analysis_queue' = put_nowait(analysis_queue, item)
                            /\ captured' = Append(captured, item)
                            /\ dropped' = IF QueueFull(analysis_queue)
                                          THEN dropped \cup {now} ELSE dropped
                            /\ lastTick' = [timestamp |-> now, idle |-> FALSE,
                                            window_info |-> w,
                                            probes |-> {"idle", "window", "screen"},
                                            enqueued |-> ~QueueFull(analysis_queue),
                                            inserted |-> FALSE]
                            \* update_last_window raises AttributeError before
                            \* state.last_window is assigned
                            /\ last_window' = IF attr THEN w ELSE last_window
                            /\ \E on_error_raises \in BOOLEAN :
                                 /\ attr => ~on_error_raises
                                 /\ CycleEnd(g, ~attr, on_error_raises)
                            /\ UNCHANGED sink
    /\ UNCHANGED << is_running, is_paused, total_analyses, stop_event,
                    analysis_thread, main_thread, content_classifier,
                    skip_unchanged, wPc, wItem, stPc, blockingGen, starts,
                    dequeues, cleanups, stopReturned, classifyVars, counterVars, callVars >>

\* if self._stop_event.wait(timeout=interval): break
MainLoopWait(g) ==
    /\ sPc[g] = "wait"
    /\ ~Frozen(g)
    /\ sPc' = [sPc EXCEPT ![g] = IF stop_event THEN "done" ELSE "loop"]
    /\ lastTick' = NoTick
    /\ UNCHANGED << is_running, is_paused, last_capture_time, last_window,
                    total_captures, total_analyses, errors, stop_event,
                    analysis_queue, analysis_thread, main_thread,
                    content_classifier, skip_unchanged, wPc, wItem, stPc,
                    blockingGen, starts, clock, sink, captured, dropped,
                    dequeues, cleanups, stopReturned, classifyVars, counterVars, callVars >>

\* time.sleep(1) at the end of the except clause
MainLoopSleep(g) ==
    /\ sPc[g] = "sleep"
    /\ ~Frozen(g)
    /\ sPc' = [sPc EXCEPT ![g] = "loop"]
    /\ lastTick' = NoTick
    /\ UNCHANGED << is_running, is_paused, last_capture_time, last_window,
                    total_captures, total_analyses, errors, stop_event,
                    analysis_queue, analysis_thread, main_thread,
                    content_classifier, skip_unchanged, wPc, wItem, stPc,
                    blockingGen, starts, clock, sink, captured, dropped,
                    dequeues, cleanups, stopReturned, classifyVars, counterVars, callVars >>

(***************************************************************************)
(* _analysis_worker                                                        *)
(***************************************************************************)
\* while self.state.is_running and not self._stop_event.is_set():
WorkerLoopTest(g) ==
    /\ wPc[g] = "loop"
    /\ wPc' = [wPc EXCEPT ![g] = IF is_running /\ ~stop_event THEN "get" ELSE "done"]
    /\ wOutcome' = [wOutcome EXCEPT ![g] = "none"]
    /\ UNCHANGED << is_running, is_paused, last_capture_time, last_window,
                    total_captures, total_analyses, errors, stop_event,
                    analysis_queue, analysis_thread, main_thread,
                    content_classifier, skip_unchanged, sPc, wItem, stPc,
                    blockingGen, starts, clock, sink, captured, dropped,
                    dequeues, cleanups, stopReturned, lastTick, classifyVars, counterVars,
                    statusVars, reloadVars, start_raised >>

\* a queue whose get leaves the item in place
queue_get_peek(q) == [item |-> Head(q), queue |-> q]

\* self._analysis_queue.get on a queue that is not empty: the item handed
\* out and the queue afterwards
queue_get(q) == [item |-> Head(q), queue |-> Tail(q)]

\* a worker whose get waits without a timeout
WorkerGet_blocking(g) ==
    /\ wPc[g] = "get"
    /\ analysis_queue # <<>>
    /\ wPc' = [wPc EXCEPT ![g] = "analyze"]
    /\ wItem' = [wItem EXCEPT ![g] = queue_get(analysis_queue).item]
    /\ analysis_queue' = queue_get(analysis_queue).queue
    /\ dequeues' = dequeues + 1
    /\ UNCHANGED << is_running, is_paused, last_capture_time, last_window,
                    total_captures, total_analyses, errors, stop_event,
                    analysis_thread, main_thread, content_classifier,
                    skip_unchanged, sPc, stPc, blockingGen, starts, clock,
                    sink, captured, dropped, cleanups, stopReturned, lastTick,
                    classifyVars, counterVars, callVars >>

\* item = self._analysis_queue.get(timeout=1); on queue.Empty: continue
WorkerGet(g) ==
    /\ wPc[g] = "get"
    /\ IF analysis_queue = <<>>
       THEN /\ wPc' = [wPc EXCEPT ![g] = "loop"]
            /\ UNCHANGED << analysis_queue, wItem, dequeues >>
       ELSE /\ wPc' = [wPc EXCEPT ![g] = "analyze"]
            /\ wItem' = [wItem EXCEPT ![g] = queue_get(analysis_queue).item]
            /\ analysis_queue' = queue_get(analysis_queue).queue
            /\ dequeues' = dequeues + 1
    /\ UNCHANGED << is_running, is_paused, last_capture_time, last_window,
                    total_captures, total_analyses, errors, stop_event,
                    analysis_thread, main_thread, content_classifier,
                    skip_unchanged, sPc, stPc, blockingGen, starts, clock,
                    sink, captured, dropped, cleanups, stopReturned, lastTick,
                    classifyVars, counterVars, callVars >>

\* how the body of the worker's try block can end for one item:
\* "classify_raises" is an exception inside ContentClassifier.classify or in
\* copying its result, which _analyze_content catches itself
WorkerOutcomes == {"ok", "classify_raises", "insert_raises", "callback_raises"}

\* a worker that counts an error and drops the item whenever the classifier
\* raises
WorkerAnalyze_classifier_error_dropped(g) ==
    /\ wPc[g] = "analyze"
    /\ \E outcome \in WorkerOutcomes :
         /\ outcome = "classify_raises" => content_classifier
         /\ sink' = IF outcome \in {"insert_raises", "classify_raises"} THEN sink
                    ELSE Append(sink, _analyze_content(wItem[g], content_classifier))
         /\ total_analyses' = IF outcome \in {"insert_raises", "classify_raises"}
                              THEN total_analyses
                              ELSE total_analyses + 1
         /\ errors' = IF outcome = "ok" THEN errors ELSE errors + 1
         /\ wOutcome' = [wOutcome EXCEPT ![g] = outcome]
    /\ wItem' = [wItem EXCEPT ![g] = NoItem]
    /\ wPc' = [wPc EXCEPT ![g] = "loop"]
    /\ UNCHANGED << is_running, is_paused, last_capture_time, last_window,
                    total_captures, stop_event, analysis_queue,
                    analysis_thread, main_thread, content_classifier,
                    skip_unchanged, sPc, stPc, blockingGen, starts, clock,
                    captured, dropped, dequeues, cleanups, stopReturned,
                    lastTick, classifyVars, counterVars, statusVars, reloadVars,
                    start_raised >>

\* _analyze_content, insert_activity, the counters, the activity callback
\* and the except clause, for the item held.  When the classifier raises,
\* _analyze_content falls back to _basic_classify and the item goes on to
\* insert_activity like any other.
WorkerAnalyze(g) ==
    /\ wPc[g] = "analyze"
    /\ \E outcome \in WorkerOutcomes :
         /\ outcome = "classify_raises" => content_classifier
         /\ sink' = IF outcome = "insert_raises" THEN sink
                    ELSE Append(sink, _analyze_content(wItem[g],
                                   content_classifier /\ outcome # "classify_raises"))
         /\ total_analyses' = IF outcome = "insert_raises" THEN total_analyses
                              ELSE total_analyses + 1
         /\ errors' = IF outcome \in {"ok", "classify_raises"} THEN errors
                      ELSE errors + 1
         /\ wOutcome' = [wOutcome EXCEPT ![g] = outcome]
    /\ wItem' = [wItem EXCEPT ![g] = NoItem]
    /\ wPc' = [wPc EXCEPT ![g] = "loop"]
    /\ UNCHANGED << is_running, is_paused, last_capture_time, last_window,
                    total_captures, stop_event, analysis_queue,
                    analysis_thread, main_thread, content_classifier,
                    skip_unchanged, sPc, stPc, blockingGen, starts, clock,
                    captured, dropped, dequeues, cleanups, stopReturned,
                    lastTick, classifyVars, counterVars, statusVars, reloadVars,
                    start_raised >>

(***************************************************************************)
(* stop(), called by the program ("prog") or by _signal_handler ("sig")    *)
(***************************************************************************)
\* if not self.state.is_running: return
StopEnter(c) ==
    /\ stPc[c] = "idle"
    /\ CallerCanRun(c)
    /\ starts > 0
    /\ is_running
    /\ stPc' = [stPc EXCEPT ![c] = "set"]
    /\ UNCHANGED << is_running, is_paused, last_capture_time, last_window,
                    total_captures, total_analyses, errors, stop_event,
                    analysis_queue, analysis_thread, main_thread,
                    content_classifier, skip_unchanged, sPc, wPc, wItem,
                    blockingGen, starts, clock, sink, captured, dropped,
                    dequeues, cleanups, stopReturned, lastTick, classifyVars, counterVars, callVars >>

\* self.state.is_running = False; self._stop_event.set()
StopSignal(c) ==
    /\ stPc[c] = "set"
    /\ CallerCanRun(c)
    /\ is_running' = FALSE
    /\ stop_event' = TRUE
    /\ stPc' = [stPc EXCEPT ![c] = "join_analysis"]
    /\ UNCHANGED << is_paused, last_capture_time, last_window,
                    total_captures, total_analyses, errors,
                    analysis_queue, analysis_thread, main_thread,
                    content_classifier, skip_unchanged, sPc, wPc, wItem,
                    blockingGen, starts, clock, sink, captured, dropped,
                    dequeues, cleanups, stopReturned, lastTick, classifyVars, counterVars, callVars >>

\* thread.is_alive()
WorkerAlive(g) == wPc[g] \notin {"none", "done"}

MainLoopAlive(g) == sPc[g] \notin {"none", "done", "crashed"}

\* join(timeout=5) returns when the thread has ended, or after five seconds,
\* which a thread reaches only inside a step that can take that long: the
\* classification of an item, the probes of a capture cycle
JoinAnalysisReturns ==
    IF analysis_thread = 0 THEN TRUE
    ELSE ~WorkerAlive(analysis_thread) \/ wPc[analysis_thread] = "analyze"

JoinMainReturns ==
    IF main_thread = 0 THEN TRUE
    ELSE ~MainLoopAlive(main_thread) \/ sPc[main_thread] = "cycle"

StopJoinAnalysis(c) ==
    /\ stPc[c] = "join_analysis"
    /\ CallerCanRun(c)
    /\ JoinAnalysisReturns
    /\ stPc' = [stPc EXCEPT ![c] = "join_main"]
    /\ UNCHANGED << is_running, is_paused, last_capture_time, last_window,
                    total_captures, total_analyses, errors, stop_event,
                    analysis_queue, analysis_thread, main_thread,
                    content_classifier, skip_unchanged, sPc, wPc, wItem,
                    blockingGen, starts, clock, sink, captured, dropped,
                    dequeues, cleanups, stopReturned, lastTick, classifyVars, counterVars, callVars >>

StopJoinMain(c) ==
    /\ stPc[c] = "join_main"
    /\ CallerCanRun(c)
    /\ JoinMainReturns
    /\ stPc' = [stPc EXCEPT ![c] = "cleanup"]
    /\ UNCHANGED << is_running, is_paused, last_capture_time, last_window,
                    total_captures, total_analyses, errors, stop_event,
                    analysis_queue, analysis_thread, main_thread,
                    content_classifier, skip_unchanged, sPc, wPc, wItem,
                    blockingGen, starts, clock, sink, captured, dropped,
                    dequeues, cleanups, stopReturned, lastTick, classifyVars, counterVars, callVars >>

\* self._cleanup() and the return of stop()
StopCleanup(c) ==
    /\ stPc[c] = "cleanup"
    /\ CallerCanRun(c)
    /\ cleanups' = cleanups + 1
    /\ stopReturned' = TRUE
    /\ stPc' = [stPc EXCEPT ![c] = "idle"]
    /\ UNCHANGED << is_running, is_paused, last_capture_time, last_window,
                    total_captures, total_analyses, errors, stop_event,
                    analysis_queue, analysis_thread, main_thread,
                    content_classifier, skip_unchanged, sPc, wPc, wItem,
                    blockingGen, starts, clock, sink, captured, dropped,
                    dequeues, lastTick, classifyVars, counterVars, callVars >>

(***************************************************************************)
(* Specifications                                                          *)
(***************************************************************************)
Init == DaemonInit /\ ClassifyIdle

\* the steps of one run of the daemon: everything but a second start()
Next ==
    \/ Start
    \/ StartRaises
    \/ Pause
    \/ Resume
    \/ \E g \in Generations : MainLoopTest(g)
    \/ \E g \in Generations : CaptureCycle(g)
    \/ \E g \in Generations : MainLoopWait(g)
    \/ \E g \in Generations : MainLoopSleep(g)
    \/ \E g \in Generations : WorkerLoopTest(g)
    \/ \E g \in Generations : WorkerGet(g)
    \/ \E g \in Generations : WorkerAnalyze(g)
    \/ \E c \in StopCallers : StopEnter(c)
    \/ \E c \in StopCallers : StopSignal(c)
    \/ \E c \in StopCallers : StopJoinAnalysis(c)
    \/ \E c \in StopCallers : StopJoinMain(c)
    \/ \E c \in StopCallers : StopCleanup(c)

\* a daemon object from its construction to the end of its first run
Spec == Init /\ [][Next]_vars

\* the steps of a daemon the program starts, stops and starts again (no
\* signal is delivered)
NextRestart ==
    \/ Start
    \/ Restart
    \/ Pause
    \/ Resume
    \/ \E g \in Generations : MainLoopTest(g)
    \/ \E g \in Generations : CaptureCycle(g)
    \/ \E g \in Generations : MainLoopWait(g)
    \/ \E g \in Generations : MainLoopSleep(g)
    \/ \E g \in Generations : WorkerLoopTest(g)
    \/ \E g \in Generations : WorkerGet(g)
    \/ \E g \in Generations : WorkerAnalyze(g)
    \/ StopEnter("prog")
    \/ StopSignal("prog")
    \/ StopJoinAnalysis("prog")
    \/ StopJoinMain("prog")
    \/ StopCleanup("prog")

\* a daemon object over its start/stop cycles
SpecRestart == Init /\ [][NextRestart]_vars

(***************************************************************************)
(* get_status(), called from a thread of the program while the scheduler   *)
(* and the worker run.  The dictionary display evaluates its values one    *)
(* after the other; other threads run in between.                          *)
(***************************************************************************)
\* the fields in the order the dictionary display reads them (uptime and
\* last_capture are not modelled)
StatusFields ==
    << "is_running", "is_paused", "total_captures", "total_analyses",
       "errors", "last_window", "queue_size" >>

\* the value a field has now
StatusValue(field) ==
    CASE field = "is_running"     -> is_running
      [] field = "is_paused"      -> is_paused
      [] field = "total_captures" -> total_captures
      [] field = "total_analyses" -> total_analyses
      [] field = "errors"         -> errors
      [] field = "last_window"    -> last_window
      [] field = "queue_size"     -> Len(analysis_queue)

\* position of a field in StatusFields
FieldIndex(field) == CHOOSE i \in 1..Len(StatusFields) : StatusFields[i] = field

\* get_status() is entered: nothing read yet
GetStatusCall ==
    /\ gsPc \in {"idle", "returned"}
    /\ starts > 0
    /\ gsPc' = StatusFields[1]
    /\ gsView' = NoView
    /\ UNCHANGED << is_running, is_paused, last_capture_time, last_window,
                    total_captures, total_analyses, errors, stop_event,
                    analysis_queue, analysis_thread, main_thread,
                    content_classifier, skip_unchanged, sPc, wPc, wItem, stPc,
                    blockingGen, starts, clock, sink, captured, dropped,
                    dequeues, cleanups, stopReturned, lastTick, classifyVars, counterVars,
                    reloadVars, start_raised, wOutcome >>

\* one value of the dictionary is evaluated
GetStatusRead(field) ==
    /\ gsPc = field
    /\ gsView' = [gsView EXCEPT ![field] = StatusValue(field)]
    /\ gsPc' = IF FieldIndex(field) = Len(StatusFields) THEN "returned"
               ELSE StatusFields[FieldIndex(field) + 1]
    /\ UNCHANGED << is_running, is_paused, last_capture_time, last_window,
                    total_captures, total_analyses, errors, stop_event,
                    analysis_queue, analysis_thread, main_thread,
                    content_classifier, skip_unchanged, sPc, wPc, wItem, stPc,
                    blockingGen, starts, clock, sink, captured, dropped,
                    dequeues, cleanups, stopReturned, lastTick, classifyVars, counterVars,
                    reloadVars, start_raised, wOutcome >>

\* the steps of a running daemon whose status is being asked for
NextStatus ==
    \/ Start
    \/ Pause
    \/ Resume
    \/ \E g \in Generations : MainLoopTest(g)
    \/ \E g \in Generations : CaptureCycle(g)
    \/ \E g \in Generations : MainLoopWait(g)
    \/ \E g \in Generations : MainLoopSleep(g)
    \/ \E g \in Generations : WorkerLoopTest(g)
    \/ \E g \in Generations : WorkerGet(g)
    \/ \E g \in Generations : WorkerAnalyze(g)
    \/ GetStatusCall
    \/ \E i \in 1..Len(StatusFields) : GetStatusRead(StatusFields[i])

\* a started daemon and a thread of the program calling get_status()
SpecStatus == Init /\ [][NextStatus]_vars

(***************************************************************************)
(* Config.reload() in _reload_handler, and _should_exclude_window reading  *)
(* the configuration meanwhile                                             *)
(***************************************************************************)
\* versions of the privacy section of the user's config.yaml
ConfigFiles ==
    { NoFile,
      [ k \in {"excluded_apps"} |-> << <<"k","e","e","p","a","s","s","x","c">>, <<"c","o","d","e">> >> ],
      [ k \in {"excluded_apps", "excluded_title_keywords"} |->
            IF k = "excluded_apps" THEN << <<"c","o","d","e">>, <<"v","l","c">> >>
            ELSE << <<"p","r","i","v","a","t","e">>, <<"k","d","b","x">> >> ] }

\* Config._merge_config on the privacy section: the keys of the file replace
\* those of the base
_merge_config(base, override) ==
    [ k \in DOMAIN base |-> IF k \in DOMAIN override THEN override[k] ELSE base[k] ]

\* Config.is_app_excluded on a given _config
config_is_app_excluded(cfg, app_name) ==
    \E k \in 1..Len(cfg.excluded_apps) :
        contains(lower(cfg.excluded_apps[k]), lower(app_name))

\* Config.is_title_excluded on a given _config
config_is_title_excluded(cfg, title) ==
    \E k \in 1..Len(cfg.excluded_title_keywords) :
        contains(lower(cfg.excluded_title_keywords[k]), lower(title))

\* the user saves another version of config.yaml
EditConfigFile ==
    /\ rlPc = "idle"
    /\ \E f \in ConfigFiles : f # config_file /\ config_file' = f
    /\ UNCHANGED << is_running, is_paused, last_capture_time, last_window,
                    total_captures, total_analyses, errors, stop_event,
                    analysis_queue, analysis_thread, main_thread,
                    content_classifier, skip_unchanged, sPc, wPc, wItem, stPc,
                    blockingGen, starts, clock, sink, captured, dropped,
                    dequeues, cleanups, stopReturned, lastTick, classifyVars, counterVars,
                    statusVars, start_raised, wOutcome, config, loaded_config,
                    rlPc, rlTodo, exPc, exWindow >>

\* SIGHUP: _reload_handler runs on the main thread; reload() clears _loaded
ReloadEnter ==
    /\ rlPc = "idle"
    /\ ~HandlerActive
    /\ rlPc' = "defaults"
    /\ UNCHANGED << is_running, is_paused, last_capture_time, last_window,
                    total_captures, total_analyses, errors, stop_event,
                    analysis_queue, analysis_thread, main_thread,
                    content_classifier, skip_unchanged, sPc, wPc, wItem, stPc,
                    blockingGen, starts, clock, sink, captured, dropped,
                    dequeues, cleanups, stopReturned, lastTick, classifyVars, counterVars,
                    statusVars, start_raised, wOutcome, config, config_file,
                    loaded_config, rlTodo, exPc, exWindow >>

\* load(): self._config = self._deep_copy(DEFAULT_CONFIG), then the file is
\* read
ReloadDefaults ==
    /\ rlPc = "defaults"
    /\ config' = DEFAULT_PRIVACY
    /\ rlTodo' = DOMAIN config_file
    /\ rlPc' = "merge"
    /\ UNCHANGED << is_running, is_paused, last_capture_time, last_window,
                    total_captures, total_analyses, errors, stop_event,
                    analysis_queue, analysis_thread, main_thread,
                    content_classifier, skip_unchanged, sPc, wPc, wItem, stPc,
                    blockingGen, starts, clock, sink, captured, dropped,
                    dequeues, cleanups, stopReturned, lastTick, classifyVars, counterVars,
                    statusVars, start_raised, wOutcome, config_file,
                    loaded_config, exPc, exWindow >>

\* _merge_config assigns one key of the file into self._config
ReloadMerge(k) ==
    /\ rlPc = "merge"
    /\ k \in rlTodo
    /\ config' = [config EXCEPT ![k] = config_file[k]]
    /\ rlTodo' = rlTodo \ {k}
    /\ UNCHANGED << is_running, is_paused, last_capture_time, last_window,
                    total_captures, total_analyses, errors, stop_event,
                    analysis_queue, analysis_thread, main_thread,
                    content_classifier, skip_unchanged, sPc, wPc, wItem, stPc,
                    blockingGen, starts, clock, sink, captured, dropped,
                    dequeues, cleanups, stopReturned, lastTick, classifyVars, counterVars,
                    statusVars, start_raised, wOutcome, config_file,
                    loaded_config, rlPc, exPc, exWindow >>

\* self._loaded = True; load(), reload() and the handler return
ReloadReturn ==
    /\ rlPc = "merge"
    /\ rlTodo = {}
    /\ loaded_config' = config
    /\ rlPc' = "idle"
    /\ UNCHANGED << is_running, is_paused, last_capture_time, last_window,
                    total_captures, total_analyses, errors, stop_event,
                    analysis_queue, analysis_thread, main_thread,
                    content_classifier, skip_unchanged, sPc, wPc, wItem, stPc,
                    blockingGen, starts, clock, sink, captured, dropped,
                    dequeues, cleanups, stopReturned, lastTick, classifyVars, counterVars,
                    statusVars, start_raised, wOutcome, config, config_file,
                    rlTodo, exPc, exWindow >>

\* the scheduler runs on the main thread (blocking start) and the reload
\* handler is running on top of it
ReaderFrozen == blockingGen # 0 /\ rlPc # "idle"

\* the capture cycle of the scheduler calls _should_exclude_window
ExcludeCall(w) ==
    /\ exPc = "idle"
    /\ ~ReaderFrozen
    /\ \E g \in Generations : sPc[g] = "cycle"
    /\ exPc' = "app"
    /\ exWindow' = w
    /\ UNCHANGED << is_running, is_paused, last_capture_time, last_window,
                    total_captures, total_analyses, errors, stop_event,
                    analysis_queue, analysis_thread, main_thread,
                    content_classifier, skip_unchanged, sPc, wPc, wItem, stPc,
                    blockingGen, starts, clock, sink, captured, dropped,
                    dequeues, cleanups, stopReturned, lastTick, classifyVars, counterVars,
                    statusVars, start_raised, wOutcome, config, config_file,
                    loaded_config, rlPc, rlTodo >>

\* one of the three tests of _should_exclude_window, each reading
\* self.config anew: is_app_excluded(app_name), is_app_excluded(process_name),
\* is_title_excluded(window_title)
ExcludeTest(at) ==
    LET window_info == WindowInfo(exWindow)
        hit == CASE at = "app" ->
                      config_is_app_excluded(config, window_info.app_name)
                 [] at = "process" ->
                      config_is_app_excluded(config, window_info.process_name)
                 [] at = "title" ->
                      config_is_title_excluded(config, window_info.window_title)
    IN  /\ exPc = at
        /\ ~ReaderFrozen
        /\ exPc' = IF hit THEN "excluded"
                   ELSE CASE at = "app" -> "process"
                          [] at = "process" -> "title"
                          [] at = "title" -> "tracked"
        /\ UNCHANGED << is_running, is_paused, last_capture_time, last_window,
                        total_captures, total_analyses, errors, stop_event,
                        analysis_queue, analysis_thread, main_thread,
                        content_classifier, skip_unchanged, sPc, wPc, wItem,
                        stPc, blockingGen, starts, clock, sink, captured,
                        dropped, dequeues, cleanups, stopReturned, lastTick,
                        classifyVars, counterVars, statusVars, start_raised, wOutcome,
                        config, config_file, loaded_config, rlPc, rlTodo,
                        exWindow >>

\* _should_exclude_window has returned
ExcludeReturn ==
    /\ exPc \in {"excluded", "tracked"}
    /\ ~ReaderFrozen
    /\ exPc' = "idle"
    /\ exWindow' = "none"
    /\ UNCHANGED << is_running, is_paused, last_capture_time, last_window,
                    total_captures, total_analyses, errors, stop_event,
                    analysis_queue, analysis_thread, main_thread,
                    content_classifier, skip_unchanged, sPc, wPc, wItem, stPc,
                    blockingGen, starts, clock, sink, captured, dropped,
                    dequeues, cleanups, stopReturned, lastTick, classifyVars, counterVars,
                    statusVars, start_raised, wOutcome, config, config_file,
                    loaded_config, rlPc, rlTodo >>

\* the steps of a reload against the exclusion check of a capture cycle
NextReload ==
    \/ Start
    \/ \E g \in Generations : MainLoopTest(g)
    \/ EditConfigFile
    \/ ReloadEnter
    \/ ReloadDefaults
    \/ \E k \in {"excluded_apps", "excluded_title_keywords"} : ReloadMerge(k)
    \/ ReloadReturn
    \/ \E w \in DaemonWindows : ExcludeCall(w)
    \/ \E at \in {"app", "process", "title"} : ExcludeTest(at)
    \/ ExcludeReturn

\* a started daemon whose configuration is reloaded by SIGHUP
SpecReload == Init /\ [][NextReload]_vars

(***************************************************************************)
(* Shutdown under fair scheduling                                          *)
(***************************************************************************)
\* capture cycles whose probes are modelled in a run that is shut down
ShutdownTicks == 1

\* a capture cycle after the last modelled tick: get_active_window returns
\* None and the cycle returns without touching the state
QuietCycle(g) ==
    /\ sPc[g] = "cycle"
    /\ ~Frozen(g)
    /\ clock >= ShutdownTicks
    /\ sPc' = [sPc EXCEPT ![g] = "wait"]
    /\ lastTick' = [timestamp |-> clock, idle |-> FALSE, window_info |-> "none",
                    probes |-> {"idle", "window"}, enqueued |-> FALSE,
                    inserted |-> FALSE]
    /\ UNCHANGED << is_running, is_paused, last_capture_time, last_window,
                    total_captures, total_analyses, errors, stop_event,
                    analysis_queue, analysis_thread, main_thread,
                    content_classifier, skip_unchanged, wPc, wItem, stPc,
                    blockingGen, starts, clock, sink, captured, dropped,
                    dequeues, cleanups, stopReturned, classifyVars, counterVars, callVars >>

\* the steps of the thread running the _main_loop of generation g, but for
\* the modelled capture cycles
SchedulerStep(g) ==
    \/ MainLoopTest(g)
    \/ QuietCycle(g)
    \/ MainLoopWait(g)
    \/ MainLoopSleep(g)

\* a modelled capture cycle of generation g can run
CycleEnabled(g) == sPc[g] = "cycle" /\ ~Frozen(g) /\ clock < ShutdownTicks

\* the steps of the thread running the _analysis_worker of generation g
WorkerStep(g) ==
    \/ WorkerLoopTest(g)
    \/ WorkerGet(g)
    \/ WorkerAnalyze(g)

\* the steps of a stop() call
StopStep(c) ==
    \/ StopEnter(c)
    \/ StopSignal(c)
    \/ StopJoinAnalysis(c)
    \/ StopJoinMain(c)
    \/ StopCleanup(c)

NextShutdown ==
    \/ Start
    \/ Pause
    \/ Resume
    \/ \E g \in Generations : SchedulerStep(g)
    \/ \E g \in Generations : clock < ShutdownTicks /\ CaptureCycle(g)
    \/ \E g \in Generations : WorkerStep(g)
    \/ \E c \in StopCallers : StopStep(c)

\* every thread that can take a step eventually takes one: the interpreter
\* switches threads, and every probe, classifier and sink call returns.  A
\* capture cycle leaves the position it is enabled in, so that weak fairness
\* for it says that it is not enabled forever.
Fairness ==
    /\ \A g \in Generations : WF_vars(SchedulerStep(g))
    /\ \A g \in Generations : []<>(~CycleEnabled(g))
    /\ \A g \in Generations : WF_vars(WorkerStep(g))
    /\ \A c \in StopCallers : WF_vars(StopStep(c))

\* one run of the daemon under fair scheduling
SpecShutdown == Init /\ [][NextShutdown]_vars /\ Fairness

(***************************************************************************)
(* The counters of DaemonState under the two loops                         *)
(***************************************************************************)
\* exceptions the two except clauses catch in a run
MaxCaught == 3

\* successful captures and inserts in a run
MaxCounted == 2

\* the thread of a loop is running
LoopRunning(t) ==
    IF t = "main_loop" THEN \E g \in Generations : MainLoopAlive(g)
                       ELSE \E g \in Generations : WorkerAlive(g)

countersFrame ==
    << is_running, is_paused, last_capture_time, last_window, stop_event,
       analysis_queue, analysis_thread, main_thread, content_classifier,
       skip_unchanged, sPc, wPc, wItem, stPc, blockingGen, starts, clock,
       dropped, dequeues, cleanups, stopReturned, lastTick, classifyVars,
       callVars >>

\* self.state.total_captures += 1 in _do_capture_cycle; the main loop is
\* the only thread that writes this counter
CountCapture ==
    /\ LoopRunning("main_loop")
    /\ exc_pc["main_loop"] = "try"
    /\ total_captures < MaxCounted
    /\ total_captures' = total_captures + 1
    /\ captured' = Append(captured, [timestamp |-> Len(captured) + 1])
    /\ UNCHANGED << total_analyses, errors, sink, counterVars, countersFrame >>

\* insert_activity returned and self.state.total_analyses += 1 in
\* _analysis_worker; the worker is the only thread that writes this counter
CountAnalysis ==
    /\ LoopRunning("analysis_worker")
    /\ exc_pc["analysis_worker"] = "try"
    /\ total_analyses < MaxCounted
    /\ total_analyses' = total_analyses + 1
    /\ sink' = Append(sink, [is_idle |-> FALSE, timestamp |-> Len(sink) + 1])
    /\ UNCHANGED << total_captures, errors, captured, counterVars, countersFrame >>

\* the try block of the loop of thread t raised: except Exception as e
LoopCatches(t) ==
    /\ LoopRunning(t)
    /\ exc_pc[t] = "try"
    /\ exc_caught < MaxCaught
    /\ exc_pc' = [exc_pc EXCEPT ![t] = "except"]
    /\ exc_caught' = exc_caught + 1
    /\ UNCHANGED << total_captures, total_analyses, errors, captured, sink,
                    exc_loaded, cap_pending, countersFrame >>

\* self.state.errors += 1, first half: the thread reads the attribute;
\* no lock is held and the interpreter may switch threads after the read
ErrorsLoad(t) ==
    /\ exc_pc[t] = "except"
    /\ exc_pc' = [exc_pc EXCEPT ![t] = "loaded"]
    /\ exc_loaded' = [exc_loaded EXCEPT ![t] = errors]
    /\ UNCHANGED << total_captures, total_analyses, errors, captured, sink,
                    exc_caught, cap_pending, countersFrame >>

\* self.state.errors += 1, second half: the thread stores the sum, and the
\* loop goes on
ErrorsStore(t) ==
    /\ exc_pc[t] = "loaded"
    /\ errors' = exc_loaded[t] + 1
    /\ exc_pc' = [exc_pc EXCEPT ![t] = "try"]
    /\ UNCHANGED << total_captures, total_analyses, captured, sink,
                    exc_loaded, exc_caught, cap_pending, countersFrame >>

NextCounters ==
    \/ Start
    \/ CountCapture
    \/ CountAnalysis
    \/ \E t \in LoopThreads : LoopCatches(t)
    \/ \E t \in LoopThreads : ErrorsLoad(t)
    \/ \E t \in LoopThreads : ErrorsStore(t)

\* the counter updates of the two loops of a started daemon
SpecCounters == Init /\ [][NextCounters]_vars

(***************************************************************************)
(* total_captures under the scheduler loops of several start() calls       *)
(***************************************************************************)
\* _do_capture_cycle up to the read of self.state.total_captures += 1: the
\* user is active, the window is tracked, detection.skip_unchanged is off
\* and the screen probe delivers
CaptureProbe(g) ==
    LET now == clock + 1 IN
    /\ sPc[g] = "cycle"
    /\ ~Frozen(g)
    /\ clock < MaxTicks
    /\ ~skip_unchanged
    /\ clock' = now
    /\ \E w \in DaemonWindows :
         /\ ~_should_exclude_window(WindowInfo(w))
         /\ cap_pending' = [cap_pending EXCEPT ![g] =
                [item |-> [window_info |-> w, screenshot |-> PlainShot,
                           timestamp |-> now],
                 loaded |-> total_captures]]
         /\ lastTick' = [timestamp |-> now, idle |-> FALSE, window_info |-> w,
                         probes |-> {"idle", "window", "screen"},
                         enqueued |-> FALSE, inserted |-> FALSE]
    /\ sPc' = [sPc EXCEPT ![g] = "count"]
    /\ UNCHANGED << is_running, is_paused, last_capture_time, last_window,
                    total_captures, total_analyses, errors, stop_event,
                    analysis_queue, analysis_thread, main_thread,
                    content_classifier, skip_unchanged, wPc, wItem, stPc,
                    blockingGen, starts, sink, captured, dropped, dequeues,
                    cleanups, stopReturned, classifyVars, callVars,
                    exc_pc, exc_loaded, exc_caught >>

\* the store of self.state.total_captures += 1 and the rest of the cycle:
\* the item is queued, update_last_window raises AttributeError and the
\* except clause of _main_loop counts it
CaptureCount(g) ==
    LET item == cap_pending[g].item IN
    /\ sPc[g] = "count"
    /\ ~Frozen(g)
    /\ total_captures' = cap_pending[g].loaded + 1
    /\ last_capture_time' = item.timestamp
    /\ analysis_queue' = put_nowait(analysis_queue, item)
    /\ captured' = Append(captured, item)
    /\ dropped' = IF QueueFull(analysis_queue)
                  THEN dropped \cup {item.timestamp} ELSE dropped
    /\ errors' = errors + 1
    /\ cap_pending' = [cap_pending EXCEPT ![g] = NoPending]
    /\ sPc' = [sPc EXCEPT ![g] = "sleep"]
    /\ UNCHANGED << is_running, is_paused, last_window, total_analyses,
                    stop_event, analysis_thread, main_thread,
                    content_classifier, skip_unchanged, wPc, wItem, stPc,
                    blockingGen, starts, clock, sink, dequeues, cleanups,
                    stopReturned, lastTick, classifyVars, callVars,
                    exc_pc, exc_loaded, exc_caught >>

NextFeeders ==
    \/ Start
    \/ Restart
    \/ \E g \in Generations : MainLoopTest(g)
    \/ \E g \in Generations : CaptureProbe(g)
    \/ \E g \in Generations : CaptureCount(g)
    \/ \E g \in Generations : MainLoopSleep(g)
    \/ \E g \in Generations : WorkerLoopTest(g)
    \/ \E g \in Generations : WorkerGet(g)
    \/ \E g \in Generations : WorkerAnalyze(g)
    \/ StopEnter("prog")
    \/ StopSignal("prog")
    \/ StopJoinAnalysis("prog")
    \/ StopJoinMain("prog")
    \/ StopCleanup("prog")

\* a daemon object over its start/stop cycles, with the update of
\* total_captures in the two steps the interpreter executes; every cycle
\* captures and ends in the except clause, so that no loop reaches its wait
SpecFeeders == Init /\ [][NextFeeders]_vars

(***************************************************************************)
(* Properties of the classification pipeline (checked under SpecClassify)  *)
(***************************************************************************)
\* the NSFW stage of the call under way reported is_nsfw = true
NsfwReported == c_shot.present /\ ~c_shot.nsfw.raises /\ c_shot.nsfw.is_nsfw

\* C4: NSFW hard override.  Every classify() call whose NSFW stage reports
\* is_nsfw = true returns activity_type 'adult', whatever the other stages
\* produced and whatever the window is.
C4_NsfwForcesAdult ==
    (c_pc = "done" /\ NsfwReported) => Returned.activity_type = "adult"

\* the four fields the CLIP merge writes differ between two results
ClipFieldsDiffer(before, after) ==
    \/ after.content_category # before.content_category
    \/ after.confidence # before.confidence
    \/ after.detection_method # before.detection_method
    \/ after.activity_type # before.activity_type

\* the CLIP scorer of the call under way delivered a result
ClipDelivered == c_shot.present /\ ~c_shot.clip.raises

\* C9: monotonic confidence merge of the CLIP stage.  The CLIP stage changes
\* content_category, confidence, detection_method or activity_type only when
\* the CLIP confidence exceeds 0.3 and strictly exceeds the confidence merged
\* so far, and then it takes over the CLIP classification and confidence; it
\* touches no other field.  When the CLIP confidence does not exceed the
\* merged one, nothing of the CLIP classification is in the returned result;
\* this holds in particular for a merged confidence of 0.9 against a CLIP
\* confidence of 0.5.
C9_ClipMergeMonotonic ==
    Len(c_hist) >= 5 =>
      LET clip == c_shot.clip
          high == [AfterImage EXCEPT !.confidence = 90]
      IN  /\ ClipFieldsDiffer(AfterImage, AfterCLIP) =>
                /\ ClipDelivered
                /\ clip.confidence > 30
                /\ clip.confidence > AfterImage.confidence
          /\ (ClipDelivered /\ clip.confidence > 30
                /\ clip.confidence > AfterImage.confidence) =>
                /\ AfterCLIP.content_category = clip.classification
                /\ AfterCLIP.confidence = clip.confidence
                /\ AfterCLIP.detection_method = "clip"
          /\ AfterCLIP = [AfterImage EXCEPT
                            !.content_category = AfterCLIP.content_category,
                            !.confidence = AfterCLIP.confidence,
                            !.detection_method = AfterCLIP.detection_method,
                            !.activity_type = AfterCLIP.activity_type]
          /\ (c_pc = "done" /\ ClipDelivered
                /\ clip.confidence <= AfterImage.confidence) =>
                /\ AfterCLIP = AfterImage
                /\ Returned.detection_method # "clip"
                /\ Returned.content_category # clip.classification
          /\ _merge_clip_result(high, [clip EXCEPT !.confidence = 50]) = high

\* a call in which an earlier stage left confidence 0.8 and CLIP reports 0.5
C9_Witness ==
    /\ c_pc = "done"
    /\ ClipDelivered
    /\ AfterImage.confidence = 80
    /\ c_shot.clip.confidence = 50
    /\ c_shot.clip.classification = <<"m","o","v","i","e","_","s","e","r","i","e","s">>

\* the OCR, image, CLIP and NSFW scorers are disabled or fail for the
\* screenshot of the call under way
ScorersOff ==
    \/ ~c_shot.present
    \/ /\ c_shot.ocr_raw = <<>>
       /\ c_shot.layout = ""
       /\ c_shot.clip.raises \/ c_shot.clip.confidence = 0
       /\ c_shot.nsfw.raises \/ ~c_shot.nsfw.is_nsfw

\* the activity type classify() gives for a window of which only app_name,
\* window_title and is_browser are known
ActivityFromWindow(app_name, window_title, is_browser) ==
    classify(NoShot,
             [ app_name     |-> app_name,
               process_name |-> <<>>,
               window_title |-> window_title,
               is_browser   |-> is_browser,
               url          |-> IF is_browser
                                THEN _extract_url_from_title(window_title)
                                ELSE <<>> ]).activity_type

\* C10: fallback completeness.  With the OCR, image, CLIP and NSFW scorers
\* disabled or failing, classify() returns for every window an activity_type
\* other than 'unknown' that is a function of app_name, window_title and
\* is_browser alone; for the editor 'code' it returns 'productive' and
\* content_type 'code'.  The daemon's own _basic_classify does the same.
C10_FallbackComplete ==
    (c_pc = "done" /\ ScorersOff) =>
      /\ Returned.activity_type # "unknown"
      /\ Returned.detection_method = "rules"
      /\ Returned.activity_type =
             ActivityFromWindow(c_window.app_name, c_window.window_title,
                                c_window.is_browser)
      /\ c_window.app_name = <<"c","o","d","e">> =>
             /\ Returned.activity_type = "productive"
             /\ Returned.content_type = "code"
      /\ _basic_classify(c_window).activity_type # "unknown"
      /\ c_window.app_name = <<"c","o","d","e">> =>
             /\ _basic_classify(c_window).activity_type = "productive"
             /\ _basic_classify(c_window).content_type = "code"

\* a finished call on the editor window with a screenshot no scorer reads
C10_Witness ==
    /\ c_pc = "done"
    /\ ScorersOff
    /\ c_shot.present
    /\ c_window.app_name = <<"c","o","d","e">>
    /\ Returned.activity_type = "productive"

(***************************************************************************)
(* Properties of the daemon (checked under Spec)                           *)
(***************************************************************************)
\* positions in the sink of the records the worker inserted
WorkerRows == {i \in 1..Len(sink) : ~sink[i].is_idle}

RunEnded ==
    /\ starts > 0
    /\ ~is_running
    /\ \A c \in StopCallers : stPc[c] = "idle"
    /\ \A g \in Generations : ~MainLoopAlive(g) /\ ~WorkerAlive(g)

\* captures that put_nowait accepted
EnqueuedCount == Len(captured) - Cardinality(dropped)

\* insert_activity calls the worker has made: one for every item taken off
\* the queue and no longer held
WorkerInsertCalls ==
    dequeues - Cardinality({g \in Generations : wPc[g] = "analyze"})

\* C2: every enqueued capture is recorded exactly once.  When a run is over,
\* also one ended by stop() with items still queued, the worker has made
\* exactly one insert_activity call for every capture that was enqueued.
C2_EnqueuedRecordedOnce ==
    RunEnded => WorkerInsertCalls = EnqueuedCount

\* a window matches the privacy configuration: an excluded-app entry occurs,
\* case-insensitively, in its app_name or process_name, or an excluded
\* keyword in its title
MatchesExclusion(w) ==
    LET raw == RawWindows[w] IN
    \/ \E k \in 1..Len(excluded_apps) :
           \/ contains(lower(excluded_apps[k]), lower(raw.app_name))
           \/ contains(lower(excluded_apps[k]), lower(raw.process_name))
    \/ \E k \in 1..Len(excluded_title_keywords) :
           contains(lower(excluded_title_keywords[k]), lower(raw.window_title))

\* the windows the privacy configuration excludes
ExcludedWindows == {w \in WindowIds : MatchesExclusion(w)}

\* C3: privacy exclusion.  A tick whose active window matches the privacy
\* configuration takes no screenshot and enqueues nothing, and no capture,
\* queued item, item held by the worker or record exists for such a window.
C3_PrivacyExclusion ==
    /\ lastTick.window_info \in ExcludedWindows =>
          /\ "screen" \notin lastTick.probes
          /\ ~lastTick.enqueued
          /\ ~lastTick.inserted
          /\ \A i \in 1..Len(captured) : captured[i].timestamp # lastTick.timestamp
          /\ \A i \in 1..Len(sink) : sink[i].timestamp # lastTick.timestamp
    /\ \A i \in 1..Len(captured) : captured[i].window_info \notin ExcludedWindows
    /\ \A i \in 1..Len(analysis_queue) : analysis_queue[i].window_info \notin ExcludedWindows
    /\ \A g \in Generations :
          wItem[g] # NoItem => wItem[g].window_info \notin ExcludedWindows
    /\ \A i \in WorkerRows : sink[i].window_info \notin ExcludedWindows

\* a tick on the window that only its process name excludes, after a
\* capture of another window was recorded
C3_Witness ==
    /\ lastTick.window_info = "w_vault"
    /\ WorkerRows # {}

FirstCapturesKept ==
    dequeues = 0 =>
      LET kept == IF Len(captured) < QueueMax THEN Len(captured) ELSE QueueMax
      IN  /\ analysis_queue = SubSeq(captured, 1, kept)
          /\ dropped = {captured[i].timestamp : i \in (kept + 1)..Len(captured)}

\* a capture made on a full queue leaves the queue as it is, is counted as
\* dropped, and the scheduler moves on in the same step
CaptureOnFullQueue ==
    (Len(captured') = Len(captured) + 1 /\ QueueFull(analysis_queue)) =>
      /\ analysis_queue' = analysis_queue
      /\ dropped' = dropped \cup {captured'[Len(captured')].timestamp}
      /\ total_captures' = total_captures + 1
      /\ \E g \in Generations : sPc[g] = "cycle" /\ sPc'[g] # "cycle"

\* C6: queue backpressure.  With the worker not dequeuing, QueueMax + 1
\* captures leave the first QueueMax in the queue in their order and drop
\* the last one; the scheduler does not wait for queue space.
C6_QueueBackpressure == []FirstCapturesKept /\ [][CaptureOnFullQueue]_vars

\* QueueMax + 1 captures with the worker not dequeuing: a full queue and one
\* capture dropped
C6_Witness ==
    /\ dequeues = 0
    /\ Len(captured) = QueueMax + 1
    /\ Len(analysis_queue) = QueueMax
    /\ Cardinality(dropped) = 1

\* C7: idempotent shutdown.  Whatever stop() calls follow one start(), one
\* after another or a programmatic one together with the signal handler's,
\* _cleanup runs at most once.
C7_CleanupOnce == cleanups <= 1

\* C8: when stop() has returned, is_running is false and neither loop takes
\* a further step: no capture cycle runs, nothing is taken off the queue and
\* nothing is inserted.
C8_NoStepAfterStop ==
    [][ stopReturned =>
          /\ ~is_running
          /\ clock' = clock
          /\ analysis_queue' = analysis_queue
          /\ sink' = sink
          /\ dequeues' = dequeues ]_vars

(***************************************************************************)
(* Further properties of the classification pipeline (SpecClassify)        *)
(***************************************************************************)
\* the call under way is the example scenario: the editor window, no scorer
\* contributing
EditorScenario ==
    /\ c_window = WindowInfo("w_code")
    /\ c_window.app_name = <<"c","o","d","e">>
    /\ c_window.window_title = <<"m","a","i","n",".","p","y"," ","-"," ","m","y","p","r","o","j"," ","-"," ","V","S"," ","C","o","d","e">>
    /\ ~c_window.is_browser
    /\ ScorersOff

\* C11: example scenario.  For app_name 'code', title 'main.py - myproj -
\* VS Code', no browser and no scorer contributing, classify() returns
\* content_type 'code', activity_type 'productive', is_productive true,
\* confidence 0.9 and a description 'Coding in <application>'.
C11_EditorExample ==
    (c_pc = "done" /\ EditorScenario) =>
      /\ Returned.content_type = "code"
      /\ Returned.activity_type = "productive"
      /\ Returned.is_productive
      /\ Returned.confidence = 90
      /\ \/ Returned.content_description = <<"C","o","d","i","n","g"," ","i","n"," ">> \o c_window.app_name
         \/ Returned.content_description = <<"C","o","d","i","n","g"," ","i","n"," ","V","S"," ","C","o","d","e">>


\* what a stage that is absent or fails contributes: nothing
UrlAbsent == c_window.url = <<>> \/ ~url_analyze(c_window.url).found

OcrAbsent == ~c_shot.present \/ extract_text(c_shot) = <<>>

ClipFailed == ~c_shot.present \/ c_shot.clip.raises

NsfwFailed == ~c_shot.present \/ c_shot.nsfw.raises

C12_NothingWhilePaused ==
    [][ is_paused =>
          /\ total_captures' = total_captures
          /\ captured' = captured
          /\ sink' = sink ]_vars

\* C12, as the code has it: a pass of the scheduler loop that finds
\* is_paused true runs no capture cycle; it goes straight to the wait and
\* leaves counters, queue, sink and clock alone.  Capture cycles are run
\* only by a scheduler that passed the test.
C12_PausedTickShortCircuited ==
    [][ /\ \A g \in Generations :
             (sPc[g] = "loop" /\ sPc'[g] # "loop" /\ is_paused
                /\ is_running /\ ~stop_event) =>
                  /\ sPc'[g] = "wait"
                  /\ UNCHANGED << total_captures, captured, analysis_queue,
                                  dropped, sink, clock, errors, lastTick >>
        /\ clock' # clock => \E g \in Generations : sPc[g] = "cycle" ]_vars

\* a paused daemon whose scheduler went to the wait without ever having run
\* a capture cycle
C12_Witness ==
    /\ is_running
    /\ is_paused
    /\ clock = 0
    /\ \E g \in Generations : sPc[g] = "wait"

\* C13: state reset on start.  Every start() that goes through leaves
\* total_captures, total_analyses and errors at 0, is_paused false and
\* last_window and last_capture_time unset, whatever happened before on the
\* same daemon object.
C13_FreshStateOnStart ==
    [][ starts' # starts =>
          /\ total_captures' = 0
          /\ total_analyses' = 0
          /\ errors' = 0
          /\ ~is_paused'
          /\ last_capture_time' = 0
          /\ last_window' = "none" ]_vars

\* the analysis worker of generation g is taking items off the queue
Draining(g) ==
    \/ wPc[g] \in {"get", "analyze"}
    \/ wPc[g] = "loop" /\ is_running /\ ~stop_event

\* the scheduler loop of generation g is running capture cycles
Feeding(g) ==
    \/ sPc[g] \in {"cycle", "wait", "sleep"}
    \/ sPc[g] = "loop" /\ is_running /\ ~stop_event

\* C14: single consumer.  Over any sequence of start(), stop(), pause() and
\* resume() calls at most one analysis worker drains the queue and at most
\* one scheduler loop feeds it.
C14_SingleConsumer ==
    /\ Cardinality({g \in Generations : Draining(g)}) <= 1
    /\ Cardinality({g \in Generations : Feeding(g)}) <= 1


\* C15: fatal start-up error.  When initialising a component inside start()
\* fails, the exception propagates out of start(): is_running stays false and
\* neither the scheduler loop nor the analysis worker has been started.
C15_FailedStartLeavesStopped ==
    start_raised =>
      /\ ~is_running
      /\ analysis_thread = 0
      /\ main_thread = 0
      /\ blockingGen = 0
      /\ \A g \in Generations : sPc[g] = "none" /\ wPc[g] = "none"

\* a start() has failed and the daemon object is still there, not running
C15_Witness ==
    /\ start_raised
    /\ ~is_running
    /\ starts = 0

\* C16: the scheduler is never fatal.  Whatever a tick raises is caught in
\* the scheduler loop and counted once in errors, and the loop goes on; the
\* scheduler loop ends only because the stop signal was set, also when an
\* error callback is registered.
C16_SchedulerNeverFatal ==
    /\ \A g \in Generations : sPc[g] \in {"done", "crashed"} => stop_event
    /\ \A g \in Generations : sPc[g] # "crashed"

\* the step in which the worker of generation g finishes the item it holds
WorkerFinishes(g) == wPc[g] = "analyze" /\ wPc'[g] # "analyze"

C19_StatusIsSnapshot ==
    gsPc = "returned" => gsView.total_analyses <= gsView.total_captures

\* the state itself never has more analyses than captures
AnalysesWithinCaptures == total_analyses <= total_captures

\* the configuration a complete load of the user's file gives
CompleteConfig(file) == _merge_config(DEFAULT_PRIVACY, file)

\* C20: atomic reload.  A reader running while the configuration is being
\* reloaded, such as the exclusion check of the scheduler, reads either the
\* complete configuration from before the reload or the complete one the
\* reload produces: never the bare defaults or a half-merged configuration.
C20_ReloadAtomic ==
    [][ (exPc \in {"app", "process", "title"} /\ exPc' # exPc) =>
           config \in {loaded_config, CompleteConfig(config_file)} ]_vars
(***************************************************************************)
(* Properties of the capture cycle and of the counters                     *)
(***************************************************************************)
\* the step is a capture cycle whose screen probe delivered an image
CaptureSucceeds == Len(captured') = Len(captured) + 1

\* C21: successful capture.  A tick that is not paused, not idle and not
\* excluded and whose window probe and screen probe both succeed increments
\* total_captures by exactly one, records last_capture_time, sets
\* last_window to the window of this tick, makes exactly one non-blocking
\* enqueue attempt of the item and does not increment errors.
C21_SuccessfulCapture ==
    [][ CaptureSucceeds =>
          LET item == captured'[Len(captured')] IN
          /\ total_captures' = total_captures + 1
          /\ last_capture_time' = item.timestamp
          /\ analysis_queue' = put_nowait(analysis_queue, item)
          /\ last_window' = item.window_info
          /\ errors' = errors ]_vars

\* the step is a capture cycle that got as far as the skip-unchanged test:
\* not idle, an active window, not excluded
TickOnTrackedWindow ==
    /\ clock' # clock
    /\ ~lastTick'.idle
    /\ lastTick'.window_info \notin ExcludedWindows \cup {"none"}

\* C22: skip unchanged window.  With skip_unchanged enabled, a tick on the
\* window processed before takes no screenshot, enqueues nothing, writes no
\* record and leaves total_captures and errors unchanged, and a tick on
\* another window is captured and enqueued normally.
C22_SkipUnchanged ==
    [][ (TickOnTrackedWindow /\ skip_unchanged) =>
          /\ errors' = errors
          /\ IF lastTick'.window_info = last_window
             THEN /\ "screen" \notin lastTick'.probes
                  /\ UNCHANGED << total_captures, analysis_queue, sink, captured >>
             ELSE "screen" \in lastTick'.probes ]_vars

\* every scheduler loop and every analysis worker has ended
LoopsEnded ==
    \A g \in Generations : ~MainLoopAlive(g) /\ ~WorkerAlive(g)

\* C23: prompt shutdown.  Once the stop signal is set, the scheduler loop
\* and the analysis worker both eventually exit, under fair scheduling and
\* provided that every probe, classifier and sink call returns.
C23_PromptShutdown == stop_event ~> LoopsEnded

\* a run that was stopped and whose loops have both ended
C23_Witness ==
    /\ stop_event
    /\ starts = 1
    /\ stopReturned
    /\ sPc[1] = "done"
    /\ wPc[1] = "done"

\* except clauses that caught an exception and have not yet counted it
HandlersInProgress == Cardinality({t \in LoopThreads : exc_pc[t] # "try"})

\* C24: synchronized counters.  Under any interleaving of the two loops no
\* counter update is lost: errors is the number of exceptions the two loops
\* caught (but for those whose except clause has not yet counted them),
\* total_captures the number of successful captures and total_analyses the
\* number of successful inserts of the worker.
C24_CountersExact ==
    /\ errors = exc_caught - HandlersInProgress
    /\ total_captures = Len(captured)
    /\ total_analyses = Cardinality(WorkerRows)

(* Properties of the classifier (checked under SpecClassify) *)
\* the rule stage of the call under way has run
RulesStageRan == Len(c_hist) >= 7

\* C25: the rule-based stage only fills in what earlier stages left unset.
\* When content_type or activity_type holds a non-default value after the
\* NSFW stage, the rule stage leaves that field as it is.
C25_RulesOnlyFillDefaults ==
    RulesStageRan =>
      /\ AfterNSFW.content_type # InitialResult.content_type
            => AfterRules.content_type = AfterNSFW.content_type
      /\ AfterNSFW.activity_type # InitialResult.activity_type
            => AfterRules.activity_type = AfterNSFW.activity_type

\* the text stage of the call under way has run on a text in which
\* analyze_text detects a programming language
OcrDetectedLanguage ==
    /\ Len(c_hist) >= 3
    /\ c_shot.present
    /\ extract_text(c_shot) # <<>>
    /\ analyze_text(extract_text(c_shot)).programming_language # ""

\* C26: text stage.  Whenever the OCR text analysis detects a programming
\* language, the result after the text stage has content_type 'code',
\* activity_type 'productive' and confidence at least 0.8, whatever other
\* keywords the text contains.
C26_LanguageForcesCode ==
    OcrDetectedLanguage =>
      /\ AfterOCR.content_type = "code"
      /\ AfterOCR.activity_type = "productive"
      /\ AfterOCR.confidence >= 80

\* the weights the activity types have, in tenths
WeightOf(activity_type) ==
    IF activity_type = "productive" THEN 10
    ELSE IF activity_type = "educational" THEN 8
    ELSE IF activity_type \in {"news"} THEN -1
    ELSE IF activity_type = "shopping" THEN -2
    ELSE IF activity_type \in {"entertainment", "gaming"} THEN -3
    ELSE IF activity_type = "social_media" THEN -4
    ELSE IF activity_type = "adult" THEN -10
    ELSE 0

\* C27: for every result classify() returns, productivity_score is the
\* table weight of the returned activity_type (0 for a type that is not in
\* the table), and is_productive is true exactly when the score is greater
\* than 0, which is exactly when the type is 'productive' or 'educational'.
C27_ProductivityFromTable ==
    c_pc = "done" =>
      /\ Returned.productivity_score = WeightOf(Returned.activity_type)
      /\ Returned.is_productive <=> Returned.productivity_score > 0
      /\ Returned.is_productive <=>
            Returned.activity_type \in {"productive", "educational"}

\* classify() returned a neutral result, whose score is zero
C27_Witness ==
    /\ c_pc = "done"
    /\ Returned.activity_type = "neutral"
    /\ Returned.productivity_score = 0
    /\ ~Returned.is_productive

(* Properties of the capture cycle, continued (checked under Spec) *)
\* a step is a tick of an active user on which the window probe returned
\* nothing, or on which the screen probe was reached and returned nothing
ProbeFailedTick ==
    /\ clock' # clock
    /\ ~lastTick'.idle
    /\ \/ lastTick'.window_info = "none"
       \/ "screen" \in lastTick'.probes /\ captured' = captured

\* C28: probe failure.  When the window probe returns nothing or the
\* screen probe fails on a tick, the tick is skipped: nothing is enqueued,
\* no record is written, total_captures is unchanged and errors is not
\* incremented.
C28_ProbeFailureSkipsTick ==
    [][ ProbeFailedTick =>
          /\ analysis_queue' = analysis_queue
          /\ sink' = sink
          /\ total_captures' = total_captures
          /\ errors' = errors ]_vars

\* the last tick reached the screen probe, which failed: no item was
\* captured or dropped on it, and no error has been counted
C28_Witness ==
    /\ clock > 0
    /\ lastTick.timestamp = clock
    /\ "screen" \in lastTick.probes
    /\ lastTick.timestamp \notin dropped
    /\ \A i \in 1..Len(captured) : captured[i].timestamp # lastTick.timestamp
    /\ errors = 0

(* Properties over start/stop cycles (checked under SpecRestart) *)
\* items the workers hold
HeldItems == Cardinality({g \in Generations : wItem[g] # NoItem})

\* every item analysed, queued or held was counted as a capture
CounterBalance ==
    total_analyses + Len(analysis_queue) + HeldItems <= total_captures

\* a step is a tick on which the user was idle
IdleTick == clock' # clock /\ lastTick'.idle

\* C29: counter invariant.  In every reachable state, over any interleaving
\* and any sequence of start/stop cycles, total_analyses plus the items in
\* the queue plus the items held by a worker is at most total_captures, so
\* that total_analyses never exceeds total_captures; a tick that records
\* idle time changes neither counter.
C29_CounterInvariant ==
    [][ /\ CounterBalance'
        /\ total_analyses' <= total_captures'
        /\ IdleTick => UNCHANGED << total_captures, total_analyses >> ]_vars

(* Properties of the classifier, continued (checked under SpecClassify) *)
\* the confidence the CLIP scorer of the call under way reports is in [0,1]
\* (in hundredths)
ClipConfidenceInRange ==
    c_shot.clip.confidence >= 0 /\ c_shot.clip.confidence <= 100

\* C30: within one classify() call the merged confidence never decreases
\* from one stage to the next, and the returned confidence lies in [0,1]
\* whenever the confidence the CLIP scorer reports does.
C30_ConfidenceMonotone ==
    /\ \A i \in 1..(Len(c_hist) - 1) :
          c_hist[i + 1].confidence >= c_hist[i].confidence
    /\ (c_pc = "done" /\ ClipConfidenceInRange) =>
          (Returned.confidence >= 0 /\ Returned.confidence <= 100)

\* a call returned whose confidence rose at the URL stage, again at the CLIP
\* stage, and was kept by the rule stage, whose own confidence is lower
C30_Witness ==
    /\ c_pc = "done"
    /\ AfterURL.confidence = 70
    /\ AfterCLIP.confidence = 95
    /\ AfterRules.confidence = 95
    /\ Returned.confidence = 95
====
